---- MODULE Spec2Model ----
(***************************************************************************)
(* A model of the medquery-rag retrieval pipeline:                         *)
(*   retriever.py  clean_medical_query, calculate_relevance_score,         *)
(*                 make_request_with_retry, search_pubmed_articles,        *)
(*                 get_pubmed_articles                                     *)
(*   embedder.py   create_faiss_index, search_similar_documents            *)
(* Text is a sequence of one-character strings, so that str.replace,       *)
(* str.split and the substring test `in` are computed character by         *)
(* character as Python computes them.  Scores are kept doubled (every      *)
(* weight of the scorer is a multiple of 0.5), so they are integers.       *)
(***************************************************************************)
EXTENDS Integers, Sequences, FiniteSets, TLC

VARIABLES
    cq_pc,        \* clean_medical_query: "off" | "start" | "done"
    cq_query,     \* its argument
    cq_result,    \* its return value
    cq_fallback,  \* whether the branch of line 285 was taken
    cq_words,     \* the local words of line 279
    filtered_words, \* the local filtered_words of line 280
    sc_pc,        \* score_articles_by_relevance: "off" | "start" | "done"
    sc_query,     \* original_query
    sc_articles,  \* articles
    sc_scores,    \* the relevance_score given to each article, doubled
    \* calculate_relevance_score, statement by statement
    cr_pc,        \* "off" | "phrase" | "terms" | "words" | "done"
    cr_article,   \* the argument article
    cr_query,     \* the lowercased query its arguments are derived from
    cr_pending,   \* the medical terms the loop of line 151 has yet to visit
    cr_visited,   \* the medical terms in the order the loop visited them
    cr_score,     \* the local score, doubled
    \* the arrays of lines 66-79 and 109-115 of embedder.py, statement by statement
    nm_pc,        \* the line about to run: "78" | "78n" | "79" | "79a" | "109" |
                  \* "112" | "112n" | "115" | "115s" | "done" | "off"
    arrays,       \* the numpy arrays made so far, by identity: 1 is embeddings
    nm_arg,       \* the array the expression being evaluated has given
    nm_query,     \* the array query_embedding, once encoded
    nm_encoded,   \* what model.encode gives for the query
    nm_added,     \* the vectors index.add was given
    nm_searched,  \* the vectors index.search was given
    \* the records of score_articles_by_relevance and of
    \* generate_article_summaries, by identity
    cp_pc,        \* "off" | "score" | "summaries" | "fallback" | "done"
    objects,      \* the dict objects made so far: an identity is a place here
    cp_before,    \* the dict objects as they were when the function was entered
    cp_list,      \* the list passed in (articles, contexts): identities
    cp_query,     \* original_query, question
    cp_new,       \* the list being built (scored_articles, enhanced_contexts)
    cp_key,       \* the key the function attaches
    \* make_request_with_retry
    rq_pc,          \* "idle" | "get" | "wait" | "ret" | "raised"
    rq_attempt,     \* the loop variable attempt
    rq_return_json, \* the argument return_json
    rq_result,      \* the value returned
    rq_outcomes,    \* what each GET of this call met, in order
    rq_gets,        \* the GETs issued by this call
    rq_waits,       \* the seconds slept before each retry of this call
    \* search_pubmed_articles
    sp_pc,          \* "idle" | "search" | "delay" | "fetch" | "ret"
    sp_term,        \* the argument query
    sp_retmax,      \* the argument max_results
    sp_sort,        \* the argument sort_by
    search_data,    \* what the search call returned: None or the body
    article_ids,    \* the idlist of the search response
    sp_calls,       \* how each make_request_with_retry call of this run ended
    sp_result,      \* the list returned
    \* get_pubmed_articles
    gp_pc,            \* "off" | "start" | "primary" | "recent" | "done"
    gp_query,         \* the argument query
    gp_max_results,   \* the argument max_results
    gp_initial_fetch, \* initial_fetch
    articles_primary, \* the list of the relevance strategy
    articles_recent,  \* the list of the recency strategy
    all_articles,     \* the merged list
    scored_articles,  \* the list of score_articles_by_relevance
    gp_returned,      \* the list returned
    gp_calls,         \* per strategy called: what was asked and what came back
    \* the trace of one run of get_pubmed_articles
    tracing,          \* whether the run is traced
    events,           \* the calls, GETs, sleeps and returns of the run, in order
    holdings,         \* the articles upstream holds during the run
    \* create_faiss_index, search_similar_documents
    em_pc,       \* "off" | "start" | "indexed" | "searched"
    em_docs,     \* the argument docs
    em_k,        \* the argument k
    em_model,    \* the global _model: "None" | "loaded"
    em_index,    \* the index returned: None, or the vectors added to it
    metadatas,   \* the metadata list returned
    texts,       \* the text list returned
    em_answer,   \* distances and indices of index.search
    em_results,  \* the list search_similar_documents returned
    em_model_calls,  \* the calls of get_embedding_model so far
    em_create_fault, \* what failed inside create_faiss_index: "none" | a step
    \* the similarity transform of line 122, on two distances
    ss_pc,        \* "off" | "start" | "done"
    ss_distance,  \* the two distances
    ss_score,     \* their similarity scores
    \* get_embedding_model, called by several threads
    gm_pc,          \* per thread: "idle" | "test" | "load" | "store" | "return"
    gm_model,       \* the global _model: 0 for None, or the instance it holds
    gm_new,         \* per thread: the instance it constructed and has yet to store
    gm_constructed, \* the SentenceTransformer instances constructed so far
    gm_calls,       \* per thread: the calls it has made
    gm_returned,    \* per thread: the instance each of its calls returned
    \* parse_pubmed_xml, on one fetch response
    px_pc,          \* "off" | "start" | "done"
    xml_content,    \* the argument xml_content
    px_article_ids, \* the argument article_ids
    px_articles,    \* the list returned
    \* generate_article_summaries
    gs_pc,               \* "idle" | "load" | "loop" | "ret"
    gs_contexts,         \* the argument contexts
    summarizer,          \* the local summarizer: "None" or the pipeline loaded
    gs_i,                \* the articles summarized so far
    enhanced_contexts,   \* the list being built, then returned
    gs_outcomes,         \* per article: what became of the summarizer call
    summarizer_pipeline, \* the global _summarizer_pipeline
    \* generate_answer
    ga_pc,          \* "off" | "start" | "summaries" | "generate" | "fallback" | "done" | "raised"
    question,       \* the argument question
    contexts,       \* the argument contexts
    ga_enhanced,    \* the enhanced contexts of the try block
    ga_fault,       \* what failed when the answer was generated: "none" | a step
    ga_answer,      \* the answer returned
    qa_pipeline,    \* the global _qa_pipeline
    \* the question-answer run of app.py
    app_pc,       \* "off" | "retrieve" | "index" | "search" | "answer" | "done" |
                  \* "no_articles" | "no_index" | "no_matches" | "error"
    app_query,    \* the question entered
    top_k,        \* the slider "Top results to analyze"
    app_stages    \* the stages entered, in order

cleanVars == <<cq_pc, cq_query, cq_result, cq_fallback, cq_words, filtered_words>>
scoreVars == <<sc_pc, sc_query, sc_articles, sc_scores>>
reqVars == <<rq_pc, rq_attempt, rq_return_json, rq_result, rq_outcomes, rq_gets,
             rq_waits>>
stratVars == <<sp_pc, sp_term, sp_retmax, sp_sort, search_data, article_ids, sp_calls,
               sp_result>>
pipeVars == <<gp_pc, gp_query, gp_max_results, gp_initial_fetch, articles_primary,
              articles_recent, all_articles, scored_articles, gp_returned, gp_calls>>
traceVars == <<tracing, events, holdings>>
fetchVars == <<reqVars, stratVars, pipeVars, traceVars>>
embedVars == <<em_pc, em_docs, em_k, em_model, em_index, metadatas, texts, em_answer,
               em_results, em_model_calls, em_create_fault>>
simVars == <<ss_pc, ss_distance, ss_score>>
loadVars == <<gm_pc, gm_model, gm_new, gm_constructed, gm_calls, gm_returned>>
parseVars == <<px_pc, xml_content, px_article_ids, px_articles>>
summaryVars == <<gs_pc, gs_contexts, summarizer, gs_i, enhanced_contexts, gs_outcomes,
                 summarizer_pipeline>>
answerVars == <<ga_pc, question, contexts, ga_enhanced, ga_fault, ga_answer, qa_pipeline>>
qaVars == <<summaryVars, answerVars>>
appVars == <<app_pc, app_query, top_k, app_stages>>
calcVars == <<cr_pc, cr_article, cr_query, cr_pending, cr_visited, cr_score>>
normVars == <<nm_pc, arrays, nm_arg, nm_query, nm_encoded, nm_added, nm_searched>>
copyVars == <<cp_pc, objects, cp_before, cp_list, cp_query, cp_new, cp_key>>
laterVars == <<calcVars, normVars, copyVars>>
restVars == <<simVars, loadVars, parseVars, qaVars, appVars, laterVars>>
vars == <<cleanVars, scoreVars, fetchVars, embedVars, restVars>>

(***************************************************************************)
(* Bounds                                                                  *)
(***************************************************************************)
\* number of fragments a question of the normaliser's input set is built from
MaxFrags == 3
\* the most ids a search response lists, and records a fetch response holds
MaxIds == 3
\* the largest max_results get_pubmed_articles is called with
MaxResults == 2
\* the most documents an index is built over
MaxDocs == 3
\* the largest k of a semantic search
MaxK == 4
\* the significant bits of the floating-point format
MantissaBits == 4
\* the threads that call get_embedding_model, and the calls of each
NumThreads == 2
MaxCalls == 2
\* the contexts handed to generate_answer
MaxContexts == 2
\* the largest value of the slider "Top results to analyze"
MaxTopK == 2

(***************************************************************************)
(* Python string operations                                                *)
(***************************************************************************)
Min(a, b) == IF a <= b THEN a ELSE b

UpperCase == <<"A","B","C","D","E","F","G","H","I","J","K","L","M","N","O","P","Q","R","S","T","U","V","W","X","Y","Z">>
LowerCase == <<"a","b","c","d","e","f","g","h","i","j","k","l","m","n","o","p","q","r","s","t","u","v","w","x","y","z">>

\* str.lower(), one character
LowerChar(c) ==
    IF \E i \in 1..26 : UpperCase[i] = c
    THEN LowerCase[CHOOSE i \in 1..26 : UpperCase[i] = c]
    ELSE c

Lower(s) == [i \in 1..Len(s) |-> LowerChar(s[i])]

IsSpace(c) == c = " "

RECURSIVE LStrip(_)
LStrip(s) == IF s # <<>> /\ IsSpace(Head(s)) THEN LStrip(Tail(s)) ELSE s

RECURSIVE RStrip(_)
RStrip(s) ==
    IF s # <<>> /\ IsSpace(s[Len(s)]) THEN RStrip(SubSeq(s, 1, Len(s) - 1)) ELSE s

\* str.strip()
Strip(s) == RStrip(LStrip(s))

\* s.startswith(p)
StartsWith(s, p) == Len(p) <= Len(s) /\ SubSeq(s, 1, Len(p)) = p

\* needle in hay (the empty string is in every string)
RECURSIVE Contains(_, _)
Contains(hay, needle) ==
    IF Len(needle) > Len(hay) THEN FALSE
    ELSE IF StartsWith(hay, needle) THEN TRUE
    ELSE Contains(Tail(hay), needle)

\* s.replace(old, ""): leftmost occurrences, left to right, not overlapping
RECURSIVE Remove(_, _)
Remove(s, old) ==
    IF s = <<>> \/ old = <<>> THEN s
    ELSE IF StartsWith(s, old) THEN Remove(SubSeq(s, Len(old) + 1, Len(s)), old)
    ELSE <<Head(s)>> \o Remove(Tail(s), old)

\* the first word of s (s does not start with a space)
RECURSIVE FirstWord(_)
FirstWord(s) ==
    IF s = <<>> \/ IsSpace(Head(s)) THEN <<>> ELSE <<Head(s)>> \o FirstWord(Tail(s))

\* str.split(): the maximal runs of non-space characters
RECURSIVE Split(_)
Split(s) ==
    LET t == LStrip(s)
        w == FirstWord(t)
    IN  IF t = <<>> THEN <<>>
        ELSE <<w>> \o Split(SubSeq(t, Len(w) + 1, Len(t)))

\* " ".join(words)
RECURSIVE Join(_)
Join(words) ==
    IF words = <<>> THEN <<>>
    ELSE IF Len(words) = 1 THEN words[1]
    ELSE words[1] \o <<" ">> \o Join(Tail(words))

\* seq[:n]
Take(seq, n) == SubSeq(seq, 1, Min(n, Len(seq)))

\* the elements of a sequence, as a set
Range(seq) == {seq[i] : i \in 1..Len(seq)}

(***************************************************************************)
(* clean_medical_query (retriever.py 258-289)                              *)
(***************************************************************************)
words_to_remove == <<
    <<"w","h","a","t"," ","a","r","e"," ","t","h","e">>, <<"w","h","a","t"," ","i","s"," ","t","h","e">>, <<"w","h","a","t"," ","a","r","e">>, <<"w","h","a","t"," ","i","s">>,
    <<"h","o","w"," ","d","o">>, <<"h","o","w"," ","d","o","e","s">>, <<"h","o","w"," ","c","a","n">>, <<"h","o","w"," ","t","o">>,
    <<"w","h","e","n"," ","s","h","o","u","l","d">>, <<"w","h","e","n"," ","d","o">>, <<"w","h","e","n"," ","i","s">>,
    <<"w","h","y"," ","d","o">>, <<"w","h","y"," ","d","o","e","s">>, <<"w","h","y"," ","i","s">>,
    <<"w","h","e","r","e"," ","d","o">>, <<"w","h","e","r","e"," ","d","o","e","s">>, <<"w","h","e","r","e"," ","i","s">> >>

medical_stopwords == { <<"a">>, <<"a","n">>, <<"t","h","e">>, <<"o","f">>, <<"a","t">>, <<"b","y">> }

\* lines 273-275: the phrases are removed one after the other, in list order
RECURSIVE RemoveAll(_, _)
RemoveAll(s, phrases) ==
    IF phrases = <<>> THEN s ELSE RemoveAll(Remove(s, Head(phrases)), Tail(phrases))

\* line 262
QueryLower(query) == Strip(Lower(query))

\* a variant whose length test reads the list left after the removal
FilterStopwordsByResult(words) ==
    LET removed == SelectSeq(words, LAMBDA w : w \notin medical_stopwords)
    IN  IF Len(removed) <= 3 THEN words ELSE removed

\* line 280: the length test reads the word list before filtering
FilterStopwords(words) ==
    SelectSeq(words, LAMBDA w : w \notin medical_stopwords \/ Len(words) <= 3)

\* lines 273-279: the words left once the question phrases are removed
CleanedWords(query) == Split(RemoveAll(QueryLower(query), words_to_remove))

\* lines 273-282: the result before the length check
CleanedResult(query) == Strip(Join(FilterStopwords(CleanedWords(query))))

\* lines 286-287
FallbackResult(query) ==
    Join(Take(Split(Remove(Remove(QueryLower(query), <<"w","h","a","t"," ","a","r","e"," ","t","h","e">>),
                           <<"w","h","a","t"," ","i","s"," ","t","h","e">>)), 6))

\* a variant that takes the fallback only for an empty cleaned result
CleanRunEmptyOnly(query) ==
    LET result == CleanedResult(query)
        short  == Len(Split(result)) < 1
    IN  [result |-> IF short THEN FallbackResult(query) ELSE result,
         fallback |-> short]

\* lines 284-289: the returned string, and whether the fallback branch ran
CleanRun(query) ==
    LET result == CleanedResult(query)
        short  == Len(Split(result)) < 2
    IN  [result |-> IF short THEN FallbackResult(query) ELSE result,
         fallback |-> short]

clean_medical_query(query) == CleanRun(query).result

\* the questions the normaliser is run on: up to MaxFrags fragments, joined
\* by single spaces
Fragments == {
    <<"W","h","a","t"," ","i","s"," ","t","h","e">>, <<"w","h","a","t"," ","a","r","e">>, <<"h","o","w"," ","t","o">>, <<"s","o","m","e","w","h","a","t"," ","i","s">>,
    <<"t","h","e">>, <<"a"," ","o","f">>, <<"d","i","a","b","e","t","e","s">>, <<"t","y","p","e"," ","2">>, <<" ">> }

RECURSIVE Questions(_)
Questions(n) ==
    IF n = 0 THEN {<<>>}
    ELSE Questions(n - 1) \cup
         {Join(<<q, f>>) : q \in Questions(n - 1) \ {<<>>}, f \in Fragments} \cup
         Fragments

CleanInit ==
    /\ cq_pc = "start"
    /\ cq_query \in Questions(MaxFrags)
    /\ cq_result = <<>>
    /\ cq_fallback = FALSE
    /\ cq_words = <<>>
    /\ filtered_words = <<>>

CleanOff ==
    /\ cq_pc = "off"
    /\ cq_query = <<>>
    /\ cq_result = <<>>
    /\ cq_fallback = FALSE
    /\ cq_words = <<>>
    /\ filtered_words = <<>>

CleanMedicalQuery ==
    /\ cq_pc = "start"
    /\ cq_pc' = "done"
    /\ cq_result' = CleanRun(cq_query).result
    /\ cq_fallback' = CleanRun(cq_query).fallback
    /\ cq_words' = CleanedWords(cq_query)
    /\ filtered_words' = FilterStopwords(CleanedWords(cq_query))
    /\ UNCHANGED cq_query
    /\ UNCHANGED <<scoreVars, fetchVars, embedVars, restVars>>

(***************************************************************************)
(* extract_medical_terms, calculate_relevance_score (retriever.py 135-213) *)
(***************************************************************************)
medical_phrases == {
    <<"t","y","p","e"," ","2"," ","d","i","a","b","e","t","e","s">>, <<"t","y","p","e"," ","1"," ","d","i","a","b","e","t","e","s">>,
    <<"f","i","r","s","t","-","l","i","n","e"," ","t","r","e","a","t","m","e","n","t">>, <<"s","e","c","o","n","d","-","l","i","n","e"," ","t","r","e","a","t","m","e","n","t">>,
    <<"s","i","d","e"," ","e","f","f","e","c","t","s">>, <<"a","d","v","e","r","s","e"," ","e","f","f","e","c","t","s">>,
    <<"c","o","n","t","r","a","i","n","d","i","c","a","t","i","o","n","s">>, <<"d","r","u","g"," ","i","n","t","e","r","a","c","t","i","o","n","s">>,
    <<"a","c","e"," ","i","n","h","i","b","i","t","o","r","s">>, <<"b","e","t","a"," ","b","l","o","c","k","e","r","s">>,
    <<"b","l","o","o","d"," ","p","r","e","s","s","u","r","e">>, <<"h","e","a","r","t"," ","f","a","i","l","u","r","e">>,
    <<"c","l","i","n","i","c","a","l"," ","t","r","i","a","l">>, <<"s","y","s","t","e","m","a","t","i","c"," ","r","e","v","i","e","w">>,
    <<"m","e","t","a","-","a","n","a","l","y","s","i","s">>, <<"g","u","i","d","e","l","i","n","e","s">> }

important_words == {
    <<"d","i","a","b","e","t","e","s">>, <<"h","y","p","e","r","t","e","n","s","i","o","n">>, <<"m","e","t","f","o","r","m","i","n">>, <<"i","n","s","u","l","i","n">>,
    <<"t","r","e","a","t","m","e","n","t">>, <<"t","h","e","r","a","p","y">>, <<"m","e","d","i","c","a","t","i","o","n">>, <<"d","r","u","g">>,
    <<"e","l","d","e","r","l","y">>, <<"p","e","d","i","a","t","r","i","c">>, <<"p","r","e","g","n","a","n","c","y">>, <<"r","e","n","a","l">>,
    <<"c","a","r","d","i","o","v","a","s","c","u","l","a","r">>, <<"n","e","p","h","r","o","p","a","t","h","y">>, <<"r","e","t","i","n","o","p","a","t","h","y">> }

\* lines 195-213: phrases found as substrings, words found as tokens; the
\* result is list(set(...)), a set
extract_medical_terms(query) ==
    {p \in medical_phrases : Contains(query, p)} \cup
    {w \in important_words : w \in Range(Split(query))}

\* the literal of line 170
NoAbstractLower == <<"n","o"," ","a","b","s","t","r","a","c","t"," ","a","v","a","i","l","a","b","l","e">>

\* a variant whose completeness bonus only asks for a non-empty abstract
ScoreBonusForAnyAbstract(article, query_words, medical_terms, full_query) ==
    LET title == Lower(article.title)
        abstract == Lower(article.abstract)
    IN  (IF Contains(title, full_query) THEN 20
         ELSE IF Contains(abstract, full_query) THEN 10 ELSE 0)
      + 6 * Cardinality({t \in medical_terms : Contains(title, t)})
      + 3 * Cardinality({t \in medical_terms :
                            ~Contains(title, t) /\ Contains(abstract, t)})
      + 4 * Cardinality(query_words \cap Range(Split(title)))
      + 1 * Cardinality(query_words \cap Range(Split(abstract)))
      + (IF abstract # <<>> THEN 2 ELSE 0)
      + 1

\* lines 139-177; the value is twice the Python float
calculate_relevance_score(article, query_words, medical_terms, full_query) ==
    LET title == Lower(article.title)
        abstract == Lower(article.abstract)
    IN  \* 1. exact phrase: 10.0 in the title, else 5.0 in the abstract
        (IF Contains(title, full_query) THEN 20
         ELSE IF Contains(abstract, full_query) THEN 10 ELSE 0)
        \* 2. per medical term: 3.0 in the title, else 1.5 in the abstract
      + 6 * Cardinality({t \in medical_terms : Contains(title, t)})
      + 3 * Cardinality({t \in medical_terms :
                            ~Contains(title, t) /\ Contains(abstract, t)})
        \* 3. 2.0 per query word in the title's words, 0.5 per query word in
        \*    the abstract's words
      + 4 * Cardinality(query_words \cap Range(Split(title)))
      + 1 * Cardinality(query_words \cap Range(Split(abstract)))
        \* 4. completeness bonus 1.0
      + (IF abstract # <<>> /\ abstract # NoAbstractLower THEN 2 ELSE 0)
        \* 5. recency constant 0.5
      + 1

\* lines 116-128: the score of one article for the original query
ScoreOf(article, original_query) ==
    LET query_lower == Lower(original_query)
    IN  calculate_relevance_score(article, Range(Split(query_lower)),
                                  extract_medical_terms(query_lower), query_lower)

\* the texts the scorer is run on
ScoreQueries == {
    <<"M","e","t","f","o","r","m","i","n"," ","s","i","d","e"," ","e","f","f","e","c","t","s"," ","e","l","d","e","r","l","y">>, <<"m","e","t","f","o","r","m","i","n">>, <<"h","e","a","r","t"," ","f","a","i","l","u","r","e">>,
    <<"n","o"," ","a","b","s","t","r","a","c","t">>, <<"W","h","a","t"," ","i","s"," ","t","h","e"," ","d","r","u","g">> }

ScoreTitles == {
    <<"M","e","t","f","o","r","m","i","n"," ","i","n"," ","t","h","e"," ","e","l","d","e","r","l","y">>, <<"H","e","a","r","t"," ","f","a","i","l","u","r","e"," ","d","r","u","g">>, <<"N","o"," ","t","i","t","l","e"," ","a","v","a","i","l","a","b","l","e">> }

ScoreAbstracts == {
    <<>>, <<"N","o"," ","a","b","s","t","r","a","c","t"," ","a","v","a","i","l","a","b","l","e">>, <<"n","o"," ","a","b","s","t","r","a","c","t"," ","a","v","a","i","l","a","b","l","e">>,
    <<"R","e","n","a","l"," ","o","u","t","c","o","m","e","s">>, <<"M","e","t","f","o","r","m","i","n"," ","s","i","d","e"," ","e","f","f","e","c","t","s"," ","a","r","e"," ","m","i","l","d">>,
    <<"B","A","C","K","G","R","O","U","N","D",":"," ","h","e","a","r","t"," ","f","a","i","l","u","r","e"," ","t","h","e","r","a","p","y">> }

ScoreArticles == [title : ScoreTitles, abstract : ScoreAbstracts]

ScoreInit ==
    /\ sc_pc = "start"
    /\ sc_query \in ScoreQueries
    /\ sc_articles \in [1..2 -> ScoreArticles]
    /\ sc_scores = <<>>

ScoreOff ==
    /\ sc_pc = "off"
    /\ sc_query = <<>>
    /\ sc_articles = <<>>
    /\ sc_scores = <<>>

\* lines 124-128: every article is scored
ScoreArticlesStep ==
    /\ sc_pc = "start"
    /\ sc_pc' = "done"
    /\ sc_scores' = [i \in 1..Len(sc_articles) |-> ScoreOf(sc_articles[i], sc_query)]
    /\ UNCHANGED <<sc_query, sc_articles>>
    /\ UNCHANGED <<cleanVars, fetchVars, embedVars, restVars>>

\* calculate_relevance_score as the statements of lines 139-177 run: the loop
\* of line 151 visits medical_terms, which is list(set(...)) of line 213, in
\* an order the hash seed of the process decides.  Every weight and every
\* partial sum is a multiple of 0.5 far below 2^53, exact in binary64, so the
\* doubled integer is the float.
CalcInit ==
    /\ cr_pc = "phrase"
    /\ cr_article \in ScoreArticles
    /\ cr_query \in {Lower(q) : q \in ScoreQueries}
    /\ cr_pending = {}
    /\ cr_visited = <<>>
    /\ cr_score = 0

CalcOff ==
    /\ cr_pc = "off"
    /\ cr_article = <<>>
    /\ cr_query = <<>>
    /\ cr_pending = {}
    /\ cr_visited = <<>>
    /\ cr_score = 0

\* a variant of lines 152-155 that adds both weights when both texts match
TermWeightBoth(term, title, abstract) ==
    (IF Contains(title, term) THEN 6 ELSE 0) + (IF Contains(abstract, term) THEN 3 ELSE 0)

\* lines 152-155: 3.0 for a term in the title, else 1.5 for one in the abstract
TermWeight(term, title, abstract) ==
    IF Contains(title, term) THEN 6
    ELSE IF Contains(abstract, term) THEN 3 ELSE 0

\* lines 139-148
ExactPhrase ==
    /\ cr_pc = "phrase"
    /\ cr_pc' = "terms"
    /\ cr_score' = IF Contains(Lower(cr_article.title), cr_query) THEN 20
                   ELSE IF Contains(Lower(cr_article.abstract), cr_query) THEN 10
                   ELSE 0
    /\ cr_pending' = extract_medical_terms(cr_query)
    /\ UNCHANGED <<cr_article, cr_query, cr_visited>>
    /\ UNCHANGED <<cleanVars, scoreVars, fetchVars, embedVars, simVars, loadVars,
                   parseVars, qaVars, appVars, normVars, copyVars>>

\* lines 151-155: one round of the loop, on whichever term comes next
MedicalTerm ==
    /\ cr_pc = "terms"
    /\ \E term \in cr_pending :
          /\ cr_score' = cr_score + TermWeight(term, Lower(cr_article.title),
                                               Lower(cr_article.abstract))
          /\ cr_pending' = cr_pending \ {term}
          /\ cr_visited' = Append(cr_visited, term)
    /\ UNCHANGED <<cr_pc, cr_article, cr_query>>
    /\ UNCHANGED <<cleanVars, scoreVars, fetchVars, embedVars, simVars, loadVars,
                   parseVars, qaVars, appVars, normVars, copyVars>>

\* lines 157-177, once the loop is over
WordMatches ==
    /\ cr_pc = "terms"
    /\ cr_pending = {}
    /\ cr_pc' = "done"
    /\ LET title == Lower(cr_article.title)
           abstract == Lower(cr_article.abstract)
           query_words == Range(Split(cr_query))
           title_matches == Cardinality(query_words \cap Range(Split(title)))
           abstract_matches == Cardinality(query_words \cap Range(Split(abstract)))
       IN  cr_score' = cr_score + title_matches * 4 + abstract_matches * 1
                       + (IF abstract # <<>> /\ abstract # NoAbstractLower THEN 2 ELSE 0)
                       + 1
    /\ UNCHANGED <<cr_article, cr_query, cr_pending, cr_visited>>
    /\ UNCHANGED <<cleanVars, scoreVars, fetchVars, embedVars, simVars, loadVars,
                   parseVars, qaVars, appVars, normVars, copyVars>>

(***************************************************************************)
(* make_request_with_retry (retriever.py 215-256)                          *)
(***************************************************************************)
max_retries == 3

None == [kind |-> "None"]

\* What one requests.get can meet:
\*   ok           2xx status, body as expected
\*   http429      the response has status_code 429
\*   httperr      another 4xx/5xx status: raise_for_status raises HTTPError
\*   neterr       requests.get raises ConnectionError or Timeout
\*   exc429       a RequestException whose text holds "429"
\*   badjson      2xx status, the body is no JSON: json.JSONDecodeError
\*   badjson_req  the same, raised as requests' JSONDecodeError (which is
\*                a RequestException too)
Outcomes == {"ok", "http429", "httperr", "neterr", "exc429", "badjson", "badjson_req"}

\* a body that is no JSON shows only when the body is decoded (line 238)
OutcomesOf(return_json) ==
    IF return_json THEN Outcomes ELSE Outcomes \ {"badjson", "badjson_req"}

\* the exception classes of what an attempt raises with this outcome
Raises(outcome, return_json) ==
    CASE outcome \in {"httperr", "neterr", "exc429"} -> {"RequestException"}
      [] outcome = "badjson" /\ return_json -> {"JSONDecodeError"}
      [] outcome = "badjson_req" /\ return_json -> {"RequestException", "JSONDecodeError"}
      [] OTHER -> {}

\* "429" in str(e)
Mentions429(outcome) == outcome = "exc429"

\* a variant that gives up on the first 429
HandleOutcomeNoRetry(outcome, attempt, return_json) ==
    IF Raises(outcome, return_json) = {} THEN
        IF outcome = "http429" THEN "return_none" ELSE "return_value"
    ELSE IF "RequestException" \in Raises(outcome, return_json) THEN
        IF Mentions429(outcome) /\ attempt < max_retries - 1 THEN "continue"
        ELSE "return_none"
    ELSE IF "JSONDecodeError" \in Raises(outcome, return_json) THEN "return_none"
    ELSE "raise"

\* a variant without the except clause of line 252
HandleOutcomeNoJsonClause(outcome, attempt, return_json) ==
    IF Raises(outcome, return_json) = {} THEN
        IF outcome = "http429"
        THEN IF attempt < max_retries - 1 THEN "continue" ELSE "return_none"
        ELSE "return_value"
    ELSE IF "RequestException" \in Raises(outcome, return_json) THEN
        IF Mentions429(outcome) /\ attempt < max_retries - 1 THEN "continue"
        ELSE "return_none"
    ELSE "raise"

\* lines 226-254: one pass of the loop body after requests.get
HandleOutcome(outcome, attempt, return_json) ==
    IF Raises(outcome, return_json) = {} THEN
        \* lines 228-240
        IF outcome = "http429"
        THEN IF attempt < max_retries - 1 THEN "continue" ELSE "return_none"
        ELSE "return_value"
    ELSE IF "RequestException" \in Raises(outcome, return_json) THEN
        \* lines 242-251
        IF Mentions429(outcome) /\ attempt < max_retries - 1 THEN "continue"
        ELSE "return_none"
    ELSE IF "JSONDecodeError" \in Raises(outcome, return_json) THEN
        \* lines 252-254
        "return_none"
    ELSE "raise"

\* a variant that waits twice as long
WaitTimeDoubled(attempt) == 2 ^ (attempt + 1)

\* a variant that waits 2 seconds before every retry
WaitTimeFixed(attempt) == 2

\* line 222: wait_time = 2 ** attempt
WaitTime(attempt) == 2 ^ attempt

\* the bodies a search response can carry (lines 80-83 read them); the body
\* of a response is drawn where the caller reads it
RECURSIVE IdList(_)
IdList(n) == IF n = 0 THEN <<>> ELSE Append(IdList(n - 1), n)

SearchBodies ==
    {[kind |-> "no_esearchresult"], [kind |-> "no_idlist"]} \cup
    {[kind |-> "idlist", idlist |-> IdList(n)] : n \in 0..MaxIds}

\* the questions the pipeline is run on
PipelineQueries == { <<"M","e","t","f","o","r","m","i","n"," ","s","i","d","e"," ","e","f","f","e","c","t","s"," ","e","l","d","e","r","l","y">>, <<"W","h","a","t"," ","i","s"," ","t","h","e"," ","h","e","a","r","t"," ","f","a","i","l","u","r","e"," ","d","r","u","g">> }

\* the articles upstream holds
Pmids == {1, 2, 3}

UrlOf(pmid) == <<"https://pubmed.ncbi.nlm.nih.gov/", pmid>>

Catalogue(pmid) ==
    CASE pmid = 1 -> [pmid |-> 1, url |-> UrlOf(1),
                      title |-> <<"M","e","t","f","o","r","m","i","n"," ","i","n"," ","e","l","d","e","r","l","y">>,
                      abstract |-> <<"M","e","t","f","o","r","m","i","n"," ","s","i","d","e"," ","e","f","f","e","c","t","s"," ","a","r","e"," ","m","i","l","d">>]
      [] pmid = 2 -> [pmid |-> 2, url |-> UrlOf(2),
                      title |-> <<"H","e","a","r","t"," ","f","a","i","l","u","r","e"," ","d","r","u","g">>,
                      abstract |-> <<"N","o"," ","a","b","s","t","r","a","c","t"," ","a","v","a","i","l","a","b","l","e">>]
      [] pmid = 3 -> [pmid |-> 3, url |-> UrlOf(3),
                      title |-> <<"H","e","a","r","t"," ","f","a","i","l","u","r","e"," ","t","h","e","r","a","p","y">>,
                      abstract |-> <<"N","o"," ","a","b","s","t","r","a","c","t"," ","a","v","a","i","l","a","b","l","e">>]

SeqsUpTo(S, n) == UNION {[1..k -> S] : k \in 0..n}

\* a PubmedArticle record of a fetch response: the article it describes, and
\* whether extracting its fields raises
RecordsOf(held) == [pmid : held, raises : BOOLEAN]

Records == RecordsOf(Pmids)

\* the bodies a fetch response can carry: text that is no XML, or a document
\* with its PubmedArticle records
FetchBodiesOf(held) ==
    {[kind |-> "malformed"]} \cup
    {[kind |-> "xml", records |-> r] : r \in SeqsUpTo(RecordsOf(held), MaxIds)}

FetchBodies == FetchBodiesOf(Pmids)

\* a variant without the try of line 303: the first record that raises ends
\* the loop and the batch is lost
ParseAbortsOnError(body, ids) ==
    IF body.kind = "malformed" THEN <<>>
    ELSE IF \E i \in 1..Len(body.records) : body.records[i].raises THEN <<>>
    ELSE [i \in 1..Len(body.records) |-> Catalogue(body.records[i].pmid)]

\* lines 302-353: a record that raises is skipped (lines 351-353), every other
\* record is appended in document order
RECURSIVE ParseRecords(_)
ParseRecords(records) ==
    IF records = <<>> THEN <<>>
    ELSE IF Head(records).raises THEN ParseRecords(Tail(records))
    ELSE <<Catalogue(Head(records).pmid)>> \o ParseRecords(Tail(records))

\* parse_pubmed_xml (lines 291-359), for records that carry a PMID: the
\* ParseError of line 300 gives the empty list (lines 355-357)
parse_pubmed_xml(body, ids) ==
    IF body.kind = "malformed" THEN <<>>
    ELSE ParseRecords(body.records)

\* Durations are kept in half seconds, so that the 0.5 s of line 96 is 1.
HalfSeconds(seconds) == 2 * seconds

\* an entry of the trace: ev is "call" | "get" | "sleep" | "return" | "end"
Event(ev, what, n) == [ev |-> ev, what |-> what, n |-> n]

\* the trace grows by these entries when the run is traced
Logged(entries) ==
    /\ events' = IF tracing THEN events \o entries ELSE events
    /\ UNCHANGED <<tracing, holdings>>

Untraced == tracing = FALSE /\ events = <<>> /\ holdings = Pmids

\* a traced run meets an upstream that holds one article, which it may send
\* any number of times
Traced == tracing = TRUE /\ events = <<>> /\ holdings = {1}

\* the endpoint a call of make_request_with_retry goes to
Endpoint(return_json) == IF return_json THEN "esearch" ELSE "efetch"

\* entering make_request_with_retry: the first pass has no wait (line 221)
StartRequest(return_json) ==
    /\ rq_pc' = "get"
    /\ rq_attempt' = 0
    /\ rq_return_json' = return_json
    /\ rq_result' = None
    /\ rq_outcomes' = <<>>
    /\ rq_gets' = 0
    /\ rq_waits' = <<>>

RequestIdle ==
    /\ rq_pc' = "idle"
    /\ rq_attempt' = 0
    /\ rq_return_json' = TRUE
    /\ rq_result' = None
    /\ rq_outcomes' = <<>>
    /\ rq_gets' = 0
    /\ rq_waits' = <<>>

\* lines 221-224: the sleep before a retry
Backoff ==
    /\ rq_pc = "wait"
    /\ rq_attempt > 0
    /\ rq_waits' = Append(rq_waits, WaitTime(rq_attempt))
    /\ Logged(<<Event("sleep", "backoff", HalfSeconds(WaitTime(rq_attempt)))>>)
    /\ rq_pc' = "get"
    /\ UNCHANGED <<rq_attempt, rq_return_json, rq_result, rq_outcomes, rq_gets>>
    /\ UNCHANGED <<stratVars, pipeVars, cleanVars, scoreVars, embedVars, restVars>>

\* lines 226-256: requests.get and what follows it in this pass
RequestsGet ==
    /\ rq_pc = "get"
    /\ \E outcome \in OutcomesOf(rq_return_json) :
         LET h == HandleOutcome(outcome, rq_attempt, rq_return_json)
         IN  /\ rq_outcomes' = Append(rq_outcomes, outcome)
             /\ rq_gets' = rq_gets + 1
             /\ Logged(<<Event("get", Endpoint(rq_return_json), rq_attempt)>>)
             /\ CASE h = "continue" ->
                        \* the next pass of range(max_retries), or line 256
                        IF rq_attempt + 1 < max_retries
                        THEN /\ rq_pc' = "wait"
                             /\ rq_attempt' = rq_attempt + 1
                             /\ rq_result' = rq_result
                        ELSE /\ rq_pc' = "ret"
                             /\ rq_result' = None
                             /\ rq_attempt' = rq_attempt
                  [] h = "return_value" ->
                        /\ rq_pc' = "ret"
                        /\ rq_attempt' = rq_attempt
                        /\ rq_result' = [kind |-> IF rq_return_json THEN "json"
                                                 ELSE "response"]
                  [] h = "return_none" ->
                        /\ rq_pc' = "ret"
                        /\ rq_attempt' = rq_attempt
                        /\ rq_result' = None
                  [] OTHER ->
                        /\ rq_pc' = "raised"
                        /\ rq_attempt' = rq_attempt
                        /\ rq_result' = None
    /\ UNCHANGED <<rq_return_json, rq_waits>>
    /\ UNCHANGED <<stratVars, pipeVars, cleanVars, scoreVars, embedVars, restVars>>

(***************************************************************************)
(* search_pubmed_articles (retriever.py 59-108)                            *)
(***************************************************************************)
CallEnd == IF rq_pc = "raised" THEN "raised"
           ELSE IF rq_result = None THEN "none" ELSE "value"

StartStrategy(term, retmax, sort_by) ==
    /\ sp_pc' = "search"
    /\ sp_term' = term
    /\ sp_retmax' = retmax
    /\ sp_sort' = sort_by
    /\ search_data' = None
    /\ article_ids' = <<>>
    /\ sp_calls' = <<>>
    /\ sp_result' = <<>>
    /\ StartRequest(TRUE)

StrategyIdle ==
    /\ sp_pc' = "idle"
    /\ sp_term' = <<>>
    /\ sp_retmax' = 0
    /\ sp_sort' = "none"
    /\ search_data' = None
    /\ article_ids' = <<>>
    /\ sp_calls' = <<>>
    /\ sp_result' = <<>>
    /\ RequestIdle

\* a variant that goes on to the fetch call with an empty idlist
HasIdList(end, body) == end = "value" /\ body.kind = "idlist"

\* lines 77-81: the search call gave a body whose idlist is not empty
HasIds(end, body) == end = "value" /\ body.kind = "idlist" /\ body.idlist # <<>>

\* lines 76-83 and the except clause of line 106: the search call is back
SearchReturned ==
    /\ sp_pc = "search"
    /\ rq_pc \in {"ret", "raised"}
    /\ sp_calls' = Append(sp_calls, CallEnd)
    /\ \E body \in IF CallEnd = "value" THEN SearchBodies ELSE {None} :
         /\ search_data' = body
         /\ IF HasIds(CallEnd, body)
            THEN /\ article_ids' = body.idlist
                 /\ sp_pc' = "delay"
            ELSE \* no result, no esearchresult, no idlist (KeyError) or an empty one
                 /\ article_ids' = article_ids
                 /\ sp_pc' = "ret"
    /\ sp_result' = <<>>
    /\ Logged(<<Event("return", "esearch", 0)>>)
    /\ RequestIdle
    /\ UNCHANGED <<sp_term, sp_retmax, sp_sort>>
    /\ UNCHANGED <<pipeVars, cleanVars, scoreVars, embedVars, restVars>>

\* a variant of line 96 that does not sleep
NoRateLimiting == <<>>

\* line 96: time.sleep(0.5)
RateLimiting == <<Event("sleep", "rate", 1)>>

\* lines 96-98: time.sleep(0.5), then the fetch call is entered
InterCallDelay ==
    /\ sp_pc = "delay"
    /\ sp_pc' = "fetch"
    /\ Logged(RateLimiting)
    /\ StartRequest(FALSE)
    /\ UNCHANGED <<sp_term, sp_retmax, sp_sort, search_data, article_ids, sp_calls,
                   sp_result>>
    /\ UNCHANGED <<pipeVars, cleanVars, scoreVars, embedVars, restVars>>

\* lines 98-108: the fetch call is back
FetchReturned ==
    /\ sp_pc = "fetch"
    /\ rq_pc \in {"ret", "raised"}
    /\ sp_calls' = Append(sp_calls, CallEnd)
    /\ \E text \in IF CallEnd = "value" THEN FetchBodiesOf(holdings) ELSE {None} :
         sp_result' = IF CallEnd = "value"
                      THEN parse_pubmed_xml(text, article_ids)
                      ELSE <<>>
    /\ sp_pc' = "ret"
    /\ Logged(<<Event("return", "efetch", 0)>>)
    /\ RequestIdle
    /\ UNCHANGED <<sp_term, sp_retmax, sp_sort, search_data, article_ids>>
    /\ UNCHANGED <<pipeVars, cleanVars, scoreVars, embedVars, restVars>>

(***************************************************************************)
(* score_articles_by_relevance, get_pubmed_articles (retriever.py 7-133)   *)
(***************************************************************************)
\* the scores of the catalogue's articles for the pipeline's questions,
\* computed once
ScoreTable ==
    [q \in PipelineQueries |-> [p \in Pmids |-> ScoreOf(Catalogue(p), q)]]

\* lines 124-128: a copy of each article with its relevance_score
WithScores(articles, original_query) ==
    [i \in 1..Len(articles) |->
        [pmid |-> articles[i].pmid, url |-> articles[i].url,
         title |-> articles[i].title, abstract |-> articles[i].abstract,
         relevance_score |->
            IF original_query \in PipelineQueries /\
               articles[i] = Catalogue(articles[i].pmid)
            THEN ScoreTable[original_query][articles[i].pmid]
            ELSE ScoreOf(articles[i], original_query)]]

\* a variant that puts an article before those of equal score
RECURSIVE InsertBeforeEqual(_, _)
InsertBeforeEqual(sorted, a) ==
    IF sorted = <<>> THEN <<a>>
    ELSE IF Head(sorted).relevance_score > a.relevance_score
         THEN <<Head(sorted)>> \o InsertBeforeEqual(Tail(sorted), a)
         ELSE <<a>> \o sorted

\* list.sort(key=relevance_score, reverse=True) is stable: an article goes
\* after every article whose score is at least its own
RECURSIVE InsertByScore(_, _)
InsertByScore(sorted, a) ==
    IF sorted = <<>> THEN <<a>>
    ELSE IF Head(sorted).relevance_score >= a.relevance_score
         THEN <<Head(sorted)>> \o InsertByScore(Tail(sorted), a)
         ELSE <<a>> \o sorted

RECURSIVE SortByScore(_)
SortByScore(articles) ==
    IF articles = <<>> THEN <<>>
    ELSE InsertByScore(SortByScore(SubSeq(articles, 1, Len(articles) - 1)),
                       articles[Len(articles)])

\* lines 110-133
score_articles_by_relevance(articles, original_query) ==
    SortByScore(WithScores(articles, original_query))

\* a variant that appends the recency articles unfiltered
MergeRecentUnfiltered(collected, recent) == collected \o recent

\* a variant that takes recency articles only to complete a relevance result
MergeRecentNeedsPrimary(collected, recent) ==
    IF collected = <<>> THEN <<>>
    ELSE LET existing_pmids == {collected[i].pmid : i \in 1..Len(collected)}
         IN  collected \o SelectSeq(recent, LAMBDA a : a.pmid \notin existing_pmids)

\* lines 34-38: the recency articles whose pmid is not collected yet
MergeRecent(collected, recent) ==
    LET existing_pmids == {collected[i].pmid : i \in 1..Len(collected)}
    IN  collected \o SelectSeq(recent, LAMBDA a : a.pmid \notin existing_pmids)

\* clean_medical_query of the pipeline's questions, computed once
CleanedTable == [q \in PipelineQueries |-> clean_medical_query(q)]

FetchArguments ==
    /\ gp_pc = "start"
    /\ gp_query \in PipelineQueries
    /\ gp_max_results \in 1..MaxResults
    /\ gp_initial_fetch = 0
    /\ articles_primary = <<>>
    /\ articles_recent = <<>>
    /\ all_articles = <<>>
    /\ scored_articles = <<>>
    /\ gp_returned = <<>>
    /\ gp_calls = <<>>
    /\ sp_pc = "idle" /\ sp_term = <<>> /\ sp_retmax = 0 /\ sp_sort = "none"
    /\ search_data = None /\ article_ids = <<>> /\ sp_calls = <<>> /\ sp_result = <<>>
    /\ rq_pc = "idle" /\ rq_attempt = 0 /\ rq_return_json = TRUE /\ rq_result = None
    /\ rq_outcomes = <<>> /\ rq_gets = 0 /\ rq_waits = <<>>

FetchInit == FetchArguments /\ Untraced

\* the same call, traced
TraceInit == FetchArguments /\ Traced

FetchOff ==
    /\ gp_pc = "off"
    /\ gp_query = <<>>
    /\ gp_max_results = 0
    /\ gp_initial_fetch = 0
    /\ articles_primary = <<>>
    /\ articles_recent = <<>>
    /\ all_articles = <<>>
    /\ scored_articles = <<>>
    /\ gp_returned = <<>>
    /\ gp_calls = <<>>
    /\ Untraced
    /\ sp_pc = "idle" /\ sp_term = <<>> /\ sp_retmax = 0 /\ sp_sort = "none"
    /\ search_data = None /\ article_ids = <<>> /\ sp_calls = <<>> /\ sp_result = <<>>
    /\ rq_pc = "idle" /\ rq_attempt = 0 /\ rq_return_json = TRUE /\ rq_result = None
    /\ rq_outcomes = <<>> /\ rq_gets = 0 /\ rq_waits = <<>>

\* a variant that returns the scored list uncut
FinishUncut(merged) ==
    /\ scored_articles' = IF merged = <<>> THEN <<>>
                          ELSE score_articles_by_relevance(merged, gp_query)
    /\ gp_returned' = IF merged = <<>> THEN <<>>
                      ELSE score_articles_by_relevance(merged, gp_query)
    /\ gp_pc' = "done"

\* lines 41-57: scoring, sorting and the cut to max_results
Finish(merged) ==
    /\ scored_articles' = IF merged = <<>> THEN <<>>
                          ELSE score_articles_by_relevance(merged, gp_query)
    /\ gp_returned' = IF merged = <<>> THEN <<>>
                      ELSE Take(score_articles_by_relevance(merged, gp_query),
                                gp_max_results)
    /\ gp_pc' = "done"

\* what a strategy was asked (retmax) and what upstream gave it: the ids of
\* the search response and the articles parsed from the fetch response
StrategyCall ==
    [sort |-> sp_sort, term |-> sp_term, retmax |-> sp_retmax, search_data |-> search_data,
     ids |-> Len(article_ids), articles |-> Len(sp_result), calls |-> Len(sp_calls)]

\* lines 11-24: up to the call of the relevance strategy
GetPubmedStart ==
    /\ gp_pc = "start"
    /\ gp_initial_fetch' = Min(gp_max_results * 3, 15)
    /\ gp_pc' = "primary"
    /\ StartStrategy(CleanedTable[gp_query], Min(gp_max_results * 3, 15),
                     "relevance")
    /\ Logged(<<Event("call", "relevance", Min(gp_max_results * 3, 15))>>)
    /\ UNCHANGED <<gp_query, gp_max_results, articles_primary, articles_recent,
                   all_articles, scored_articles, gp_returned, gp_calls>>
    /\ UNCHANGED <<cleanVars, scoreVars, embedVars, restVars>>

\* a variant that runs the recency strategy only when nothing was collected
NeedsRecentWhenEmpty(collected, initial_fetch) == collected = <<>>

\* line 30: the recency strategy runs when the quota is not met
NeedsRecent(collected, initial_fetch) == Len(collected) < initial_fetch

\* lines 24-33 (and 41-57 when the recency strategy is not needed)
PrimaryReturned ==
    /\ gp_pc = "primary"
    /\ sp_pc = "ret"
    /\ articles_primary' = sp_result
    /\ gp_calls' = Append(gp_calls, StrategyCall)
    /\ LET merged == IF sp_result # <<>> THEN all_articles \o sp_result
                     ELSE all_articles
       IN  /\ all_articles' = merged
           /\ IF NeedsRecent(merged, gp_initial_fetch)
              THEN /\ gp_pc' = "recent"
                   /\ StartStrategy(sp_term, gp_initial_fetch - Len(merged), "pub_date")
                   /\ Logged(<<Event("end", "relevance", Len(sp_result)),
                               Event("call", "pub_date", gp_initial_fetch - Len(merged))>>)
                   /\ UNCHANGED <<scored_articles, gp_returned>>
              ELSE /\ Finish(merged)
                   /\ Logged(<<Event("end", "relevance", Len(sp_result))>>)
                   /\ StrategyIdle
    /\ UNCHANGED <<gp_query, gp_max_results, gp_initial_fetch, articles_recent>>
    /\ UNCHANGED <<cleanVars, scoreVars, embedVars, restVars>>

\* lines 34-57
RecentReturned ==
    /\ gp_pc = "recent"
    /\ sp_pc = "ret"
    /\ articles_recent' = sp_result
    /\ gp_calls' = Append(gp_calls, StrategyCall)
    /\ LET merged == IF sp_result # <<>> THEN MergeRecent(all_articles, sp_result)
                     ELSE all_articles
       IN  /\ all_articles' = merged
           /\ Finish(merged)
    /\ Logged(<<Event("end", "pub_date", Len(sp_result))>>)
    /\ StrategyIdle
    /\ UNCHANGED <<gp_query, gp_max_results, gp_initial_fetch, articles_primary>>
    /\ UNCHANGED <<cleanVars, scoreVars, embedVars, restVars>>

(***************************************************************************)
(* create_faiss_index, search_similar_documents (embedder.py)              *)
(***************************************************************************)
\* the vectors the encoder can give a text
Vectors == {<<1, 0>>, <<0, 1>>, <<2, 0>>}

\* the squared Euclidean distance IndexFlatL2 reports
L2sqr(u, v) == (u[1] - v[1]) * (u[1] - v[1]) + (u[2] - v[2]) * (u[2] - v[2])

\* the distance index.search reports in a slot it could not fill (the
\* largest float32; here larger than every distance between Vectors)
FltMax == 1000000

\* the label index.search reports in a slot it could not fill
NoNeighbor == -1

\* lines 39-47: the text embedded for a document
DocText(doc) ==
    LET abstract == Strip(doc.abstract)
        title == Strip(doc.title)
    IN  IF abstract # <<>> /\ abstract # <<"N","o"," ","a","b","s","t","r","a","c","t"," ","a","v","a","i","l","a","b","l","e">>
        THEN title \o <<"."," ">> \o abstract
        ELSE title

\* lines 50-54
DocMetadata(doc) == [title |-> Strip(doc.title), url |-> doc.url, pmid |-> doc.pmid]

\* list[idx] of Python: a negative idx counts from the end
PyItem(list, idx) == IF idx >= 0 THEN list[idx + 1] ELSE list[Len(list) + idx + 1]

\* index.search(query, k) of a flat L2 index over `vectors`: the nearest
\* min(k, ntotal) positions (0-based) by non-decreasing distance, ties in any
\* order, and the slots left over filled with -1 and the largest float
SearchAnswers(vectors, query, k) ==
    LET n == Len(vectors)
        m == Min(k, n)
        d(p) == L2sqr(vectors[p + 1], query)
        Nearest == {f \in [1..m -> 0..(n - 1)] :
                      /\ \A i, j \in 1..m : f[i] = f[j] => i = j
                      /\ \A i, j \in 1..m : i < j => d(f[i]) <= d(f[j])
                      /\ \A p \in 0..(n - 1) :
                            (\A i \in 1..m : f[i] # p) =>
                                \A i \in 1..m : d(f[i]) <= d(p)}
    IN  {[indices |-> [i \in 1..k |-> IF i <= m THEN f[i] ELSE NoNeighbor],
          distances |-> [i \in 1..k |-> IF i <= m THEN d(f[i]) ELSE FltMax]] :
            f \in Nearest}

\* Floating-point numbers.  A number is a fraction [num, den] of naturals
\* (not reduced); an operation gives the exact result rounded to the nearest
\* number of MantissaBits significant bits, ties to even, as IEEE-754 does.
\* The exponent range is not modelled: 1/(1 + d) neither overflows nor
\* underflows to 0 for a finite float32 d.
Frac(n, d) == [num |-> n, den |-> d]

FEq(x, y) == x.num * y.den = y.num * x.den

FLess(x, y) == x.num * y.den < y.num * x.den

\* n/d * 2^e with 2^(MantissaBits-1) <= n/d < 2^MantissaBits
RECURSIVE Normalize(_, _, _)
Normalize(n, d, e) ==
    IF n >= (2 ^ MantissaBits) * d THEN Normalize(n, 2 * d, e + 1)
    ELSE IF n < (2 ^ (MantissaBits - 1)) * d THEN Normalize(2 * n, d, e - 1)
    ELSE [n |-> n, d |-> d, e |-> e]

\* round to nearest, ties to even
RoundFloat(x) ==
    IF x.num = 0 THEN Frac(0, 1)
    ELSE LET z == Normalize(x.num, x.den, 0)
             q == z.n \div z.d
             r == z.n % z.d
             m == IF 2 * r > z.d \/ (2 * r = z.d /\ q % 2 = 1) THEN q + 1 ELSE q
         IN  IF z.e >= 0 THEN Frac(m * (2 ^ z.e), 1) ELSE Frac(m, 2 ^ (0 - z.e))

\* 1 + x and 1 / x in floating point
OnePlus(x) == RoundFloat(Frac(x.den + x.num, x.den))

Reciprocal(x) == RoundFloat(Frac(x.den, x.num))

\* a variant that adds 2 where line 122 adds 1
SimilarityPlusTwo(distance) ==
    Reciprocal(RoundFloat(Frac(2 * distance.den + distance.num, distance.den)))

\* line 122: float(1 / (1 + distance))
similarity_score(distance) == Reciprocal(OnePlus(distance))

\* a variant whose rank counts from 0
RECURSIVE BuildResultsRankFromZero(_, _, _, _, _)
BuildResultsRankFromZero(i, distances, indices, meta, txts) ==
    IF i >= Len(indices) THEN <<>>
    ELSE LET idx == indices[i + 1]
             rest == BuildResultsRankFromZero(i + 1, distances, indices, meta, txts)
         IN  IF idx < Len(meta)
             THEN <<[rank |-> i,
                     similarity_score |-> similarity_score(Frac(distances[i + 1], 1)),
                     text |-> PyItem(txts, idx),
                     metadata |-> PyItem(meta, idx)]>> \o rest
             ELSE rest

\* a variant that takes the metadata at the slot's place, not at idx
RECURSIVE BuildResultsMetadataBySlot(_, _, _, _, _)
BuildResultsMetadataBySlot(i, distances, indices, meta, txts) ==
    IF i >= Len(indices) THEN <<>>
    ELSE LET idx == indices[i + 1]
             rest == BuildResultsMetadataBySlot(i + 1, distances, indices, meta, txts)
         IN  IF idx < Len(meta)
             THEN <<[rank |-> i + 1,
                     similarity_score |-> similarity_score(Frac(distances[i + 1], 1)),
                     text |-> PyItem(txts, idx),
                     metadata |-> PyItem(meta, i % Len(meta))]>> \o rest
             ELSE rest

\* lines 117-126: the result of slot i (0-based), or nothing
RECURSIVE BuildResults(_, _, _, _, _)
BuildResults(i, distances, indices, meta, txts) ==
    IF i >= Len(indices) THEN <<>>
    ELSE LET idx == indices[i + 1]
             rest == BuildResults(i + 1, distances, indices, meta, txts)
         IN  IF idx < Len(meta)
             THEN <<[rank |-> i + 1,
                     similarity_score |-> similarity_score(Frac(distances[i + 1], 1)),
                     text |-> PyItem(txts, idx),
                     metadata |-> PyItem(meta, idx)]>> \o rest
             ELSE rest

EmbedInit ==
    /\ em_pc = "start"
    /\ em_docs \in {[i \in 1..Len(s) |-> Catalogue(s[i])] : s \in SeqsUpTo(Pmids, MaxDocs)}
    /\ em_k \in 1..MaxK
    /\ em_model = "None"
    /\ em_index = None
    /\ metadatas = <<>>
    /\ texts = <<>>
    /\ em_answer = None
    /\ em_results = <<>>
    /\ em_model_calls = 0
    /\ em_create_fault = "none"

EmbedOff ==
    /\ em_pc = "off"
    /\ em_docs = <<>>
    /\ em_k = 0
    /\ em_model = "None"
    /\ em_index = None
    /\ metadatas = <<>>
    /\ texts = <<>>
    /\ em_answer = None
    /\ em_results = <<>>
    /\ em_model_calls = 0
    /\ em_create_fault = "none"

\* what can raise inside create_faiss_index once the texts are built:
\* get_embedding_model (line 62), model.encode (line 66), the index
\* construction (lines 74-79)
CreateFaults == {"load", "encode", "build"}

\* a variant whose try block starts after the model is obtained
CreateCatchesAfterLoad(fault) == fault \in {"encode", "build"}

\* lines 60, 84: the try block holds lines 61-82 and its clause catches every
\* Exception
CreateCatches(fault) == fault \in {"load", "encode", "build"}

\* create_faiss_index (lines 19-86)
CreateFaissIndex ==
    /\ em_pc = "start"
    /\ IF em_docs = <<>>
       THEN \* lines 29-31
            /\ em_pc' = "indexed"
            /\ em_index' = None
            /\ metadatas' = <<>>
            /\ texts' = <<>>
            /\ UNCHANGED <<em_model, em_model_calls, em_create_fault>>
       ELSE \E fault \in CreateFaults \cup {"none"} :
              LET txts == [i \in 1..Len(em_docs) |-> DocText(em_docs[i])]
              IN  /\ fault = "load" => em_model = "None"
                  /\ em_create_fault' = fault
                  /\ em_model_calls' = em_model_calls + 1
                  /\ em_model' = IF fault = "load" THEN em_model ELSE "loaded"
                  /\ IF fault = "none"
                     THEN \E encode \in [Range(txts) -> Vectors] :
                            \* line 78 normalizes a copy that is dropped; line 79
                            \* adds the embeddings as encoded
                            /\ em_pc' = "indexed"
                            /\ em_index' = [vectors |-> [i \in 1..Len(txts) |-> encode[txts[i]]]]
                            /\ metadatas' = [i \in 1..Len(em_docs) |-> DocMetadata(em_docs[i])]
                            /\ texts' = txts
                     ELSE \* lines 84-86, or the exception leaves the function
                          /\ em_pc' = IF CreateCatches(fault) THEN "indexed" ELSE "raised"
                          /\ em_index' = None
                          /\ metadatas' = <<>>
                          /\ texts' = <<>>
    /\ UNCHANGED <<em_docs, em_k, em_answer, em_results>>
    /\ UNCHANGED <<cleanVars, scoreVars, fetchVars, restVars>>

\* search_similar_documents (lines 88-132)
SearchSimilarDocuments ==
    /\ em_pc = "indexed"
    \* called on its own, or by line 155 of app.py
    /\ app_pc \in {"off", "search"}
    /\ em_pc' = "searched"
    /\ IF em_index = None \/ metadatas = <<>>
       THEN \* lines 103-104
            /\ em_results' = <<>>
            /\ em_answer' = None
            /\ em_model' = em_model
       ELSE \E encodes \in BOOLEAN :
              IF encodes
              THEN \E query_embedding \in Vectors :
                     \E answer \in SearchAnswers(em_index.vectors, query_embedding, em_k) :
                        /\ em_answer' = answer
                        /\ em_results' = BuildResults(0, answer.distances, answer.indices,
                                                      metadatas, texts)
                        /\ em_model' = "loaded"
              ELSE \* lines 130-132
                   /\ em_results' = <<>>
                   /\ em_answer' = None
                   /\ em_model' = em_model
    \* line 108 is reached once the guard of line 103 is passed
    /\ em_model_calls' = IF em_index = None \/ metadatas = <<>> THEN em_model_calls
                         ELSE em_model_calls + 1
    /\ UNCHANGED <<em_docs, em_k, em_index, metadatas, texts, em_create_fault>>
    /\ UNCHANGED <<cleanVars, scoreVars, fetchVars, restVars>>

\* The arrays of create_faiss_index (lines 66-79) and of
\* search_similar_documents (lines 109-115).  An array is a list of vectors
\* held under an identity; ndarray.astype makes a new array (copy=True is its
\* default, also when the dtype is unchanged) and faiss.normalize_L2 changes
\* the array it is given in place.
Norm2(v) == v[1] * v[1] + v[2] * v[2]

Root(n) == CHOOSE r \in 0..n : r * r = n

\* the vector scaled to length 1 (a zero vector is left as it is); the
\* vectors of the model have whole-number lengths
UnitVector(v) ==
    IF Norm2(v) = 0 THEN v
    ELSE [i \in 1..Len(v) |-> v[i] \div Root(Norm2(v))]

normalize_L2(x) == [i \in 1..Len(x) |-> UnitVector(x[i])]

NormInit ==
    /\ nm_pc = "78"
    /\ arrays \in {<<e>> : e \in [1..2 -> Vectors]}
    /\ nm_arg = 0
    /\ nm_query = 0
    /\ nm_encoded \in Vectors
    /\ nm_added = <<>>
    /\ nm_searched = <<>>

NormOff ==
    /\ nm_pc = "off"
    /\ arrays = <<>>
    /\ nm_arg = 0
    /\ nm_query = 0
    /\ nm_encoded = <<>>
    /\ nm_added = <<>>
    /\ nm_searched = <<>>

NormOthers == <<cleanVars, scoreVars, fetchVars, embedVars, simVars, loadVars,
                parseVars, qaVars, appVars, calcVars, copyVars>>

\* the line after an .astype(np.float32) expression has been evaluated
AfterAstype == [x \in {"78", "79", "112", "115"} |->
                   CASE x = "78" -> "78n" [] x = "79" -> "79a"
                     [] x = "112" -> "112n" [] OTHER -> "115s"]

\* embeddings.astype(np.float32) of lines 78 and 79 and
\* query_embedding.astype(np.float32) of lines 112 and 115: a new array
Astype ==
    /\ nm_pc \in DOMAIN AfterAstype
    /\ LET source == IF nm_pc \in {"78", "79"} THEN 1 ELSE nm_query
       IN  arrays' = Append(arrays, arrays[source])
    /\ nm_arg' = Len(arrays) + 1
    /\ nm_pc' = AfterAstype[nm_pc]
    /\ UNCHANGED <<nm_query, nm_encoded, nm_added, nm_searched>>
    /\ UNCHANGED NormOthers

\* faiss.normalize_L2(...) of lines 78 and 112, on the array it was given
NormalizeL2 ==
    /\ nm_pc \in {"78n", "112n"}
    /\ arrays' = [arrays EXCEPT ![nm_arg] = normalize_L2(arrays[nm_arg])]
    /\ nm_pc' = IF nm_pc = "78n" THEN "79" ELSE "115"
    /\ UNCHANGED <<nm_arg, nm_query, nm_encoded, nm_added, nm_searched>>
    /\ UNCHANGED NormOthers

\* index.add(...) of line 79
IndexAdd ==
    /\ nm_pc = "79a"
    /\ nm_added' = arrays[nm_arg]
    /\ nm_pc' = "109"
    /\ UNCHANGED <<arrays, nm_arg, nm_query, nm_encoded, nm_searched>>
    /\ UNCHANGED NormOthers

\* query_embedding = model.encode([query]) of line 109
EncodeQuery ==
    /\ nm_pc = "109"
    /\ arrays' = Append(arrays, <<nm_encoded>>)
    /\ nm_query' = Len(arrays) + 1
    /\ nm_pc' = "112"
    /\ UNCHANGED <<nm_arg, nm_encoded, nm_added, nm_searched>>
    /\ UNCHANGED NormOthers

\* index.search(...) of line 115
IndexSearch ==
    /\ nm_pc = "115s"
    /\ nm_searched' = arrays[nm_arg]
    /\ nm_pc' = "done"
    /\ UNCHANGED <<arrays, nm_arg, nm_query, nm_encoded, nm_added>>
    /\ UNCHANGED NormOthers

\* the distances the transform is applied to: each has at most 3
\* significant bits
Distances ==
    {Frac(0, 1), Frac(1, 64), Frac(1, 32), Frac(1, 16), Frac(1, 8), Frac(1, 4),
     Frac(1, 2), Frac(1, 1), Frac(2, 1), Frac(3, 1), Frac(5, 1), Frac(6, 1)}

SimInit ==
    /\ ss_pc = "start"
    /\ ss_distance \in [1..2 -> Distances]
    /\ ss_score = <<>>

SimOff ==
    /\ ss_pc = "off"
    /\ ss_distance = <<>>
    /\ ss_score = <<>>

\* line 122, for each of the two neighbours
SimilarityStep ==
    /\ ss_pc = "start"
    /\ ss_pc' = "done"
    /\ ss_score' = [i \in 1..2 |-> similarity_score(ss_distance[i])]
    /\ UNCHANGED ss_distance
    /\ UNCHANGED <<cleanVars, scoreVars, fetchVars, embedVars, loadVars, parseVars, qaVars, appVars,
                   laterVars>>

(***************************************************************************)
(* parse_pubmed_xml (retriever.py 291-359), on one fetch response          *)
(***************************************************************************)
ParseInit ==
    /\ px_pc = "start"
    /\ xml_content \in FetchBodies
    /\ px_article_ids \in {IdList(n) : n \in 1..MaxIds}
    /\ px_articles = <<>>

ParseOff ==
    /\ px_pc = "off"
    /\ xml_content = None
    /\ px_article_ids = <<>>
    /\ px_articles = <<>>

ParsePubmedXml ==
    /\ px_pc = "start"
    /\ px_pc' = "done"
    /\ px_articles' = parse_pubmed_xml(xml_content, px_article_ids)
    /\ UNCHANGED <<xml_content, px_article_ids>>
    /\ UNCHANGED <<cleanVars, scoreVars, fetchVars, embedVars, simVars, loadVars, qaVars, appVars,
                   laterVars>>

(***************************************************************************)
(* get_embedding_model (embedder.py 7-17), statement by statement           *)
(***************************************************************************)
Threads == 1..NumThreads

\* line 8: _model = None, and no thread is inside the function
LoadInit ==
    /\ gm_pc = [t \in Threads |-> "idle"]
    /\ gm_model = 0
    /\ gm_new = [t \in Threads |-> 0]
    /\ gm_constructed = 0
    /\ gm_calls = [t \in Threads |-> 0]
    /\ gm_returned = [t \in Threads |-> <<>>]

LoadOff ==
    /\ gm_pc = <<>>
    /\ gm_model = 0
    /\ gm_new = <<>>
    /\ gm_constructed = 0
    /\ gm_calls = <<>>
    /\ gm_returned = <<>>

\* line 10: thread t calls get_embedding_model
EnterCall(t) ==
    /\ gm_pc[t] = "idle"
    /\ gm_calls[t] < MaxCalls
    /\ gm_calls' = [gm_calls EXCEPT ![t] = @ + 1]
    /\ gm_pc' = [gm_pc EXCEPT ![t] = "test"]
    /\ UNCHANGED <<gm_model, gm_new, gm_constructed, gm_returned>>
    /\ UNCHANGED <<cleanVars, scoreVars, fetchVars, embedVars, simVars, parseVars, qaVars, appVars,
                   laterVars>>

\* line 13: if _model is None
TestModel(t) ==
    /\ gm_pc[t] = "test"
    /\ gm_pc' = [gm_pc EXCEPT ![t] = IF gm_model = 0 THEN "load" ELSE "return"]
    /\ UNCHANGED <<gm_model, gm_new, gm_constructed, gm_calls, gm_returned>>
    /\ UNCHANGED <<cleanVars, scoreVars, fetchVars, embedVars, simVars, parseVars, qaVars, appVars,
                   laterVars>>

\* line 15, right-hand side: SentenceTransformer(...) constructs an instance
ConstructModel(t) ==
    /\ gm_pc[t] = "load"
    /\ gm_constructed' = gm_constructed + 1
    /\ gm_new' = [gm_new EXCEPT ![t] = gm_constructed + 1]
    /\ gm_pc' = [gm_pc EXCEPT ![t] = "store"]
    /\ UNCHANGED <<gm_model, gm_calls, gm_returned>>
    /\ UNCHANGED <<cleanVars, scoreVars, fetchVars, embedVars, simVars, parseVars, qaVars, appVars,
                   laterVars>>

\* line 15, the assignment to the global
StoreModel(t) ==
    /\ gm_pc[t] = "store"
    /\ gm_model' = gm_new[t]
    /\ gm_new' = [gm_new EXCEPT ![t] = 0]
    /\ gm_pc' = [gm_pc EXCEPT ![t] = "return"]
    /\ UNCHANGED <<gm_constructed, gm_calls, gm_returned>>
    /\ UNCHANGED <<cleanVars, scoreVars, fetchVars, embedVars, simVars, parseVars, qaVars, appVars,
                   laterVars>>

\* line 17: return _model
ReturnModel(t) ==
    /\ gm_pc[t] = "return"
    /\ gm_returned' = [gm_returned EXCEPT ![t] = Append(@, gm_model)]
    /\ gm_pc' = [gm_pc EXCEPT ![t] = "idle"]
    /\ UNCHANGED <<gm_model, gm_new, gm_constructed, gm_calls>>
    /\ UNCHANGED <<cleanVars, scoreVars, fetchVars, embedVars, simVars, parseVars, qaVars, appVars,
                   laterVars>>

(***************************************************************************)
(* qa_chain.py: generate_article_summaries and the summaries it falls back *)
(* on, generate_answer and its template answer                             *)
(***************************************************************************)
\* re.split(r'[.!?]+', text)
IsSentenceEnd(c) == c \in {".", "!", "?"}

RECURSIVE SkipSentenceEnds(_)
SkipSentenceEnds(s) ==
    IF s # <<>> /\ IsSentenceEnd(Head(s)) THEN SkipSentenceEnds(Tail(s)) ELSE s

RECURSIVE SplitSentences(_)
SplitSentences(s) ==
    IF \A i \in 1..Len(s) : ~IsSentenceEnd(s[i]) THEN <<s>>
    ELSE LET k == CHOOSE i \in 1..Len(s) :
                    IsSentenceEnd(s[i]) /\ \A j \in 1..(i - 1) : ~IsSentenceEnd(s[j])
         IN  <<SubSeq(s, 1, k - 1)>> \o
             SplitSentences(SkipSentenceEnds(SubSeq(s, k, Len(s))))

\* lines 152-153: the stripped sentences of more than 20 characters
QualifyingSentences(abstract) ==
    LET pieces == SplitSentences(abstract)
        stripped == [i \in 1..Len(pieces) |-> Strip(pieces[i])]
    IN  SelectSeq(stripped, LAMBDA x : Len(x) > 20)

\* lines 162-168
important_keywords == {
    <<"o","b","j","e","c","t","i","v","e">>, <<"a","i","m">>, <<"p","u","r","p","o","s","e">>, <<"g","o","a","l">>,
    <<"m","e","t","h","o","d">>, <<"a","p","p","r","o","a","c","h">>, <<"d","e","s","i","g","n">>,
    <<"r","e","s","u","l","t">>, <<"f","i","n","d","i","n","g">>, <<"o","u","t","c","o","m","e">>, <<"c","o","n","c","l","u","s","i","o","n">>,
    <<"s","i","g","n","i","f","i","c","a","n","t">>, <<"e","f","f","e","c","t","i","v","e">>, <<"t","r","e","a","t","m","e","n","t">>, <<"t","h","e","r","a","p","y">>,
    <<"r","e","c","o","m","m","e","n","d","a","t","i","o","n">>, <<"g","u","i","d","e","l","i","n","e">>, <<"p","r","o","t","o","c","o","l">> }

Digits == {"0", "1", "2", "3", "4", "5", "6", "7", "8", "9"}

\* lines 171-185
SentenceScore(sentence) ==
    2 * Cardinality({k \in important_keywords : Contains(Lower(sentence), k)})
    + (IF \E i \in 1..Len(sentence) : sentence[i] \in Digits THEN 1 ELSE 0)
    + (IF Len(sentence) > 100 THEN 1 ELSE 0)

\* line 190: a stable sort by score, highest first
RECURSIVE InsertSentence(_, _)
InsertSentence(sorted, x) ==
    IF sorted = <<>> THEN <<x>>
    ELSE IF SentenceScore(Head(sorted)) >= SentenceScore(x)
         THEN <<Head(sorted)>> \o InsertSentence(Tail(sorted), x)
         ELSE <<x>> \o sorted

RECURSIVE SortSentences(_)
SortSentences(sentences) ==
    IF sentences = <<>> THEN <<>>
    ELSE InsertSentence(SortSentences(SubSeq(sentences, 1, Len(sentences) - 1)),
                        sentences[Len(sentences)])

\* extract_study_focus (lines 208-223)
extract_study_focus(title) ==
    LET title_lower == Lower(title)
        HasAny(words) == \E w \in words : Contains(title_lower, w)
    IN  IF HasAny({<<"r","e","v","i","e","w">>, <<"s","y","s","t","e","m","a","t","i","c"," ","r","e","v","i","e","w">>, <<"m","e","t","a","-","a","n","a","l","y","s","i","s">>})
        THEN "This systematic review examines"
        ELSE IF HasAny({<<"t","r","i","a","l">>, <<"s","t","u","d","y">>, <<"c","l","i","n","i","c","a","l">>})
        THEN "This clinical study investigates"
        ELSE IF HasAny({<<"g","u","i","d","e","l","i","n","e">>, <<"r","e","c","o","m","m","e","n","d","a","t","i","o","n">>})
        THEN "These guidelines address"
        ELSE IF HasAny({<<"t","r","e","a","t","m","e","n","t">>, <<"t","h","e","r","a","p","y">>, <<"m","a","n","a","g","e","m","e","n","t">>})
        THEN "This research focuses on treatment approaches for"
        ELSE "This study explores"

\* line 156: f"This study focuses on {title.lower()}."
TitleTemplate(title) ==
    [kind |-> "template", text |-> <<"T","h","i","s"," ","s","t","u","d","y"," ","f","o","c","u","s","e","s"," ","o","n"," ">> \o Lower(title) \o <<".">>]

\* generate_extractive_summary (lines 146-206): the template when no sentence
\* qualifies, else the study focus and the two best sentences (the text is
\* kept in its parts)
generate_extractive_summary(abstract, title) ==
    LET sentences == QualifyingSentences(abstract)
    IN  IF sentences = <<>> THEN TitleTemplate(title)
        ELSE [kind |-> "extractive",
              focus |-> extract_study_focus(title),
              sentences |-> Take(SortSentences(sentences), 2)]

\* the contexts the answer stage is given: results of
\* search_similar_documents over the catalogue's articles
ContextOf(pmid, rank) ==
    [rank |-> rank,
     similarity_score |-> similarity_score(Frac(rank - 1, 1)),
     text |-> DocText(Catalogue(pmid)),
     metadata |-> DocMetadata(Catalogue(pmid))]

\* the extractive summary of the catalogue's articles, computed once
ExtractiveTable ==
    [p \in Pmids |-> generate_extractive_summary(DocText(Catalogue(p)),
                                                 DocMetadata(Catalogue(p)).title)]

ExtractiveOf(ctx) ==
    IF ctx.metadata.pmid \in Pmids /\ ctx.text = ContextOf(ctx.metadata.pmid, 1).text
       /\ ctx.metadata = ContextOf(ctx.metadata.pmid, 1).metadata
    THEN ExtractiveTable[ctx.metadata.pmid]
    ELSE generate_extractive_summary(ctx.text, ctx.metadata.title)

\* what the summarizer call of generate_ai_summary (lines 127-135) can do
SummarizerOutcomes == {"ok", "raises"}

\* lines 92-95 with generate_ai_summary (lines 112-144): the model's summary,
\* or the extractive one when there is no summarizer or its call raises
SummaryOf(ctx, outcome) ==
    IF outcome = "ok" THEN [kind |-> "ai", of |-> ctx.metadata.pmid]
    ELSE ExtractiveOf(ctx)

\* ctx.copy() with the key summary (lines 98-99)
Enhanced(ctx, summary) ==
    [rank |-> ctx.rank, similarity_score |-> ctx.similarity_score, text |-> ctx.text,
     metadata |-> ctx.metadata, summary |-> summary]

\* a variant in which an article whose summarizer call raises is left out
SummarizeOrDrop(enhanced, ctx, outcome) ==
    IF outcome = "raises" THEN enhanced
    ELSE Append(enhanced, Enhanced(ctx, SummaryOf(ctx, outcome)))

\* lines 84-100: one pass of the loop
SummarizeArticle(enhanced, ctx, outcome) ==
    Append(enhanced, Enhanced(ctx, SummaryOf(ctx, outcome)))

StartSummaries(ctxs) ==
    /\ gs_pc' = "load"
    /\ gs_contexts' = ctxs
    /\ summarizer' = "None"
    /\ gs_i' = 0
    /\ enhanced_contexts' = <<>>
    /\ gs_outcomes' = <<>>
    /\ UNCHANGED summarizer_pipeline

\* generate_article_summaries has returned: its locals are gone
SummariesIdle ==
    /\ gs_pc' = "idle"
    /\ gs_contexts' = <<>>
    /\ summarizer' = "None"
    /\ gs_i' = 0
    /\ enhanced_contexts' = <<>>
    /\ gs_outcomes' = <<>>
    /\ UNCHANGED summarizer_pipeline

\* line 81, get_summarizer_pipeline (lines 41-72): a loaded pipeline is
\* reused; else BART is loaded, else distilbart, else None is kept
GetSummarizerPipeline ==
    /\ gs_pc = "load"
    /\ \E loaded \in IF summarizer_pipeline = "None"
                    THEN {"bart", "distilbart", "None"}
                    ELSE {summarizer_pipeline} :
         /\ summarizer_pipeline' = loaded
         /\ summarizer' = loaded
    /\ gs_pc' = IF gs_contexts = <<>> THEN "ret" ELSE "loop"
    /\ UNCHANGED <<gs_contexts, gs_i, enhanced_contexts, gs_outcomes>>
    /\ UNCHANGED <<answerVars, cleanVars, scoreVars, fetchVars, embedVars, simVars,
                   loadVars, parseVars, appVars,
                   laterVars>>

\* lines 83-107: the next article
SummarizeNext ==
    /\ gs_pc = "loop"
    /\ \E outcome \in IF summarizer = "None" THEN {"unavailable"}
                     ELSE SummarizerOutcomes :
         /\ enhanced_contexts' =
               SummarizeArticle(enhanced_contexts, gs_contexts[gs_i + 1], outcome)
         /\ gs_outcomes' = Append(gs_outcomes, outcome)
    /\ gs_i' = gs_i + 1
    /\ gs_pc' = IF gs_i + 1 = Len(gs_contexts) THEN "ret" ELSE "loop"
    /\ UNCHANGED <<gs_contexts, summarizer, summarizer_pipeline>>
    /\ UNCHANGED <<answerVars, cleanVars, scoreVars, fetchVars, embedVars, simVars,
                   loadVars, parseVars, appVars,
                   laterVars>>

\* what can raise between lines 298 and 314: get_qa_pipeline, when neither
\* model loads (line 32 is outside its try), and the call of the pipeline
AnswerFaults == {"load", "invoke"}

\* a variant whose try block starts after the pipeline is obtained
AnswerCatchesAfterLoad(fault) == fault = "invoke"

\* lines 273, 318: the try block holds lines 274-316 and its clause catches
\* every Exception
AnswerCatches(fault) == fault \in {"load", "invoke"}

\* format_answer_with_summaries (lines 322-336): the generated text, then
\* title, summary and url of every context
GeneratedAnswer(enhanced) ==
    [kind |-> "generated",
     summaries |-> [i \in 1..Len(enhanced) |->
                      [title |-> enhanced[i].metadata.title,
                       summary |-> enhanced[i].summary,
                       url |-> enhanced[i].metadata.url]]]

\* generate_fallback_answer_with_summaries (lines 346-368): the numbered
\* summaries, then title, summary and url of every context
TemplateAnswer(q, enhanced) ==
    [kind |-> "template",
     question |-> q,
     findings |-> [i \in 1..Len(enhanced) |-> enhanced[i].summary],
     sources |-> [i \in 1..Len(enhanced) |->
                    [title |-> enhanced[i].metadata.title,
                     summary |-> enhanced[i].summary,
                     url |-> enhanced[i].metadata.url]]]

\* line 269
NoEvidence == [kind |-> "no_evidence"]

AnswerInit ==
    /\ ga_pc = "start"
    /\ question \in PipelineQueries
    /\ contexts \in {[i \in 1..Len(p) |-> ContextOf(p[i], i)] :
                       p \in SeqsUpTo(Pmids, MaxContexts)}
    /\ ga_enhanced = <<>>
    /\ ga_fault = "none"
    /\ ga_answer = None
    /\ qa_pipeline = "None"
    /\ gs_pc = "idle" /\ gs_contexts = <<>> /\ summarizer = "None" /\ gs_i = 0
    /\ enhanced_contexts = <<>> /\ gs_outcomes = <<>>
    /\ summarizer_pipeline \in {"None", "bart"}

AnswerOff ==
    /\ ga_pc = "off"
    /\ question = <<>>
    /\ contexts = <<>>
    /\ ga_enhanced = <<>>
    /\ ga_fault = "none"
    /\ ga_answer = None
    /\ qa_pipeline = "None"
    /\ gs_pc = "idle" /\ gs_contexts = <<>> /\ summarizer = "None" /\ gs_i = 0
    /\ enhanced_contexts = <<>> /\ gs_outcomes = <<>>
    /\ summarizer_pipeline = "None"

\* lines 268-275: no contexts, or the summaries of the try block are asked for
GenerateAnswerStart ==
    /\ ga_pc = "start"
    /\ IF contexts = <<>>
       THEN /\ ga_pc' = "done"
            /\ ga_answer' = NoEvidence
            /\ UNCHANGED summaryVars
       ELSE /\ ga_pc' = "summaries"
            /\ ga_answer' = ga_answer
            /\ StartSummaries(contexts)
    /\ UNCHANGED <<question, contexts, ga_enhanced, ga_fault, qa_pipeline>>
    /\ UNCHANGED <<cleanVars, scoreVars, fetchVars, embedVars, simVars, loadVars,
                   parseVars, appVars,
                   laterVars>>

\* lines 275-320: the summaries are back; the prompt is built, the pipeline
\* obtained and called, and either the formatted answer is returned or the
\* template answer is started
GenerateText ==
    /\ ga_pc = "summaries"
    /\ gs_pc = "ret"
    /\ ga_enhanced' = enhanced_contexts
    /\ \E fault \in AnswerFaults \cup {"none"}, loaded \in {"dialogpt", "distilgpt2"} :
         /\ fault = "load" => qa_pipeline = "None"
         /\ ga_fault' = fault
         \* get_qa_pipeline (lines 10-39): a loaded pipeline is reused
         /\ qa_pipeline' = IF qa_pipeline # "None" THEN qa_pipeline
                           ELSE IF fault = "load" THEN "None"
                           ELSE loaded
         /\ IF fault = "none"
            THEN /\ ga_pc' = "done"
                 /\ ga_answer' = GeneratedAnswer(enhanced_contexts)
                 /\ SummariesIdle
            ELSE IF AnswerCatches(fault)
            THEN \* line 320, then line 344
                 /\ ga_pc' = "fallback"
                 /\ ga_answer' = ga_answer
                 /\ StartSummaries(contexts)
            ELSE /\ ga_pc' = "raised"
                 /\ ga_answer' = ga_answer
                 /\ SummariesIdle
    /\ UNCHANGED <<question, contexts>>
    /\ UNCHANGED <<cleanVars, scoreVars, fetchVars, embedVars, simVars, loadVars,
                   parseVars, appVars,
                   laterVars>>

\* lines 344-368: the summaries of the template answer are back
FallbackAnswer ==
    /\ ga_pc = "fallback"
    /\ gs_pc = "ret"
    /\ ga_pc' = "done"
    /\ ga_answer' = TemplateAnswer(question, enhanced_contexts)
    /\ SummariesIdle
    /\ UNCHANGED <<question, contexts, ga_enhanced, ga_fault, qa_pipeline>>
    /\ UNCHANGED <<cleanVars, scoreVars, fetchVars, embedVars, simVars, loadVars,
                   parseVars, appVars,
                   laterVars>>

(***************************************************************************)
(* Records by identity: what score_articles_by_relevance (retriever.py     *)
(* 122-133) and generate_article_summaries (qa_chain.py 83-107) do to the  *)
(* dicts they are given.  A dict is a function from its keys; dict.copy()  *)
(* makes a new dict with the same keys and values (a nested dict is shared)*)
(***************************************************************************)
\* a variant that annotates the dict it was given
AliasOf(heap, ref) == [heap |-> heap, ref |-> ref]

\* dict.copy(): a new object with the same items
CopyOf(heap, ref) == [heap |-> Append(heap, heap[ref]), ref |-> Len(heap) + 1]

\* d[key] = value
SetItem(d, key, value) == (key :> value) @@ d

\* the metadata dict and the result dict of line 120-125 for each article
ContextObjects(pmids) ==
    [n \in 1..(2 * Len(pmids)) |->
        LET k == (n + 1) \div 2
        IN  IF n % 2 = 1 THEN DocMetadata(Catalogue(pmids[k]))
            ELSE [rank |-> k, text |-> pmids[k], metadata |-> n - 1]]

CopyInit ==
    /\ cp_query \in PipelineQueries
    /\ cp_new = <<>>
    /\ \/ /\ cp_pc = "score"
          /\ cp_key = "relevance_score"
          /\ objects \in {[k \in 1..Len(p) |-> Catalogue(p[k])] :
                             p \in SeqsUpTo(Pmids, MaxDocs) \ {<<>>}}
          /\ cp_list = [k \in 1..Len(objects) |-> k]
       \/ /\ cp_pc = "summaries"
          /\ cp_key = "summary"
          /\ objects \in {ContextObjects(p) : p \in SeqsUpTo(Pmids, MaxContexts) \ {<<>>}}
          /\ cp_list = [k \in 1..(Len(objects) \div 2) |-> 2 * k]
    /\ cp_before = objects

CopyOff ==
    /\ cp_pc = "off"
    /\ objects = <<>>
    /\ cp_before = <<>>
    /\ cp_list = <<>>
    /\ cp_query = <<>>
    /\ cp_new = <<>>
    /\ cp_key = "none"

CopyOthers == <<cleanVars, scoreVars, fetchVars, embedVars, simVars, loadVars,
                parseVars, qaVars, appVars, calcVars, normVars>>

\* retriever.py lines 124-128: one pass of the loop
CopyArticle ==
    /\ cp_pc = "score"
    /\ Len(cp_new) < Len(cp_list)
    /\ LET article == cp_list[Len(cp_new) + 1]
           score == ScoreTable[cp_query][objects[article].pmid]
           article_copy == CopyOf(objects, article)
       IN  /\ objects' = [article_copy.heap EXCEPT ![article_copy.ref] =
                                SetItem(@, "relevance_score", score)]
           /\ cp_new' = Append(cp_new, article_copy.ref)
    /\ UNCHANGED <<cp_pc, cp_before, cp_list, cp_query, cp_key>>
    /\ UNCHANGED CopyOthers

\* retriever.py lines 131-133: scored_articles.sort(...), in place, and return
SortScored ==
    /\ cp_pc = "score"
    /\ Len(cp_new) = Len(cp_list)
    /\ LET keyed == [k \in 1..Len(cp_new) |->
                        [ref |-> cp_new[k],
                         relevance_score |-> objects[cp_new[k]].relevance_score]]
           sorted == SortByScore(keyed)
       IN  cp_new' = [k \in 1..Len(sorted) |-> sorted[k].ref]
    /\ cp_pc' = "done"
    /\ UNCHANGED <<objects, cp_before, cp_list, cp_query, cp_key>>
    /\ UNCHANGED CopyOthers

\* qa_chain.py lines 83-107: one pass of the loop; the summary is the
\* model's, the extractive one, or the fallback one of line 106
CopyContext ==
    /\ cp_pc \in {"summaries", "fallback"}
    /\ Len(cp_new) < Len(cp_list)
    /\ \E kind \in {"ai", "extractive", "fallback"} :
         LET ctx == cp_list[Len(cp_new) + 1]
             title == objects[objects[ctx].metadata].title
             enhanced_ctx == CopyOf(objects, ctx)
         IN  /\ objects' = [enhanced_ctx.heap EXCEPT ![enhanced_ctx.ref] =
                                  SetItem(@, "summary", <<kind, title>>)]
             /\ cp_new' = Append(cp_new, enhanced_ctx.ref)
    /\ UNCHANGED <<cp_pc, cp_before, cp_list, cp_query, cp_key>>
    /\ UNCHANGED CopyOthers

\* qa_chain.py line 110, back in generate_answer: the answer is formatted
\* from the enhanced contexts (lines 276-316), or something raises and line
\* 344 calls generate_article_summaries(contexts) once more
SummariesReturned ==
    /\ cp_pc \in {"summaries", "fallback"}
    /\ Len(cp_new) = Len(cp_list)
    /\ \/ /\ cp_pc' = "done"
          /\ UNCHANGED cp_new
       \/ /\ cp_pc = "summaries"
          /\ cp_pc' = "fallback"
          /\ cp_new' = <<>>
    /\ UNCHANGED <<objects, cp_before, cp_list, cp_query, cp_key>>
    /\ UNCHANGED CopyOthers

(***************************************************************************)
(* app.py, lines 117-171: one question-answer run                          *)
(***************************************************************************)
\* a variant that goes on to the next stage whatever the stage returned
ProceedsAlways(value) == TRUE

\* lines 132, 159: `if not articles` / `if not similar_docs` stop the script
Proceeds(value) == value # <<>>

AppInit ==
    /\ app_pc = "retrieve"
    /\ app_query = gp_query
    /\ top_k \in 2..MaxTopK
    /\ app_stages = <<"retrieve">>

AppOff ==
    /\ app_pc = "off"
    /\ app_query = <<>>
    /\ top_k = 0
    /\ app_stages = <<>>

\* get_pubmed_articles has returned to line 128: its locals are gone
FetchLocalsGone ==
    /\ gp_pc' = "off"
    /\ gp_query' = <<>>
    /\ gp_max_results' = 0
    /\ gp_initial_fetch' = 0
    /\ articles_primary' = <<>>
    /\ articles_recent' = <<>>
    /\ all_articles' = <<>>
    /\ scored_articles' = <<>>
    /\ gp_returned' = <<>>
    /\ gp_calls' = <<>>
    /\ UNCHANGED <<reqVars, stratVars, traceVars>>

\* lines 128-143: the articles are back; the run stops on the no-articles
\* message, or create_faiss_index is called with them
AppRetrieved ==
    /\ app_pc = "retrieve"
    /\ gp_pc = "done"
    /\ IF Proceeds(gp_returned)
       THEN /\ app_pc' = "index"
            /\ app_stages' = Append(app_stages, "index")
            /\ em_pc' = "start"
            /\ em_docs' = gp_returned
            /\ em_k' = top_k
            /\ FetchLocalsGone
            /\ UNCHANGED <<em_model, em_index, metadatas, texts, em_answer, em_results,
                           em_model_calls, em_create_fault>>
       ELSE \* lines 133-134: st.error and st.stop()
            /\ app_pc' = "no_articles"
            /\ UNCHANGED <<app_stages, fetchVars, embedVars>>
    /\ UNCHANGED <<app_query, top_k>>
    /\ UNCHANGED <<cleanVars, scoreVars, simVars, loadVars, parseVars, qaVars,
                   laterVars>>

\* lines 143-155: the index is back; the run stops on the no-index message,
\* or search_similar_documents is called
AppIndexed ==
    /\ app_pc = "index"
    /\ em_pc = "indexed"
    /\ IF em_index = None \/ Len(texts) = 0
       THEN /\ app_pc' = "no_index"
            /\ UNCHANGED app_stages
       ELSE /\ app_pc' = "search"
            /\ app_stages' = Append(app_stages, "search")
    /\ UNCHANGED <<app_query, top_k>>
    /\ UNCHANGED <<cleanVars, scoreVars, fetchVars, embedVars, simVars, loadVars,
                   parseVars, qaVars,
                   laterVars>>

\* lines 155-167: the similar documents are back; the run stops on the
\* no-matches message, or generate_answer is called with them
AppSearched ==
    /\ app_pc = "search"
    /\ em_pc = "searched"
    /\ IF Proceeds(em_results)
       THEN /\ app_pc' = "answer"
            /\ app_stages' = Append(app_stages, "answer")
            /\ ga_pc' = "start"
            /\ question' = app_query
            /\ contexts' = em_results
            /\ UNCHANGED <<ga_enhanced, ga_fault, ga_answer, qa_pipeline, summaryVars>>
       ELSE /\ app_pc' = "no_matches"
            /\ UNCHANGED <<app_stages, qaVars>>
    /\ UNCHANGED <<app_query, top_k>>
    /\ UNCHANGED <<cleanVars, scoreVars, fetchVars, embedVars, simVars, loadVars,
                   parseVars,
                   laterVars>>

\* lines 167-171, and the except clause of line 324
AppAnswered ==
    /\ app_pc = "answer"
    /\ ga_pc \in {"done", "raised"}
    /\ app_pc' = IF ga_pc = "done" THEN "done" ELSE "error"
    /\ UNCHANGED <<app_query, top_k, app_stages>>
    /\ UNCHANGED <<cleanVars, scoreVars, fetchVars, embedVars, simVars, loadVars,
                   parseVars, qaVars,
                   laterVars>>

(***************************************************************************)
(* Specifications                                                          *)
(***************************************************************************)
\* one call of get_pubmed_articles, request by request
Init == FetchInit /\ CleanOff /\ ScoreOff /\ EmbedOff /\ SimOff /\ LoadOff /\ ParseOff /\ AnswerOff /\ AppOff /\ CalcOff /\ NormOff /\ CopyOff

Next ==
    \/ GetPubmedStart
    \/ RequestsGet
    \/ Backoff
    \/ SearchReturned
    \/ InterCallDelay
    \/ FetchReturned
    \/ PrimaryReturned
    \/ RecentReturned

Spec == Init /\ [][Next]_vars

\* create_faiss_index, then search_similar_documents
InitEmbed == EmbedInit /\ CleanOff /\ ScoreOff /\ FetchOff /\ SimOff /\ LoadOff /\ ParseOff /\ AnswerOff /\ AppOff /\ CalcOff /\ NormOff /\ CopyOff

NextEmbed == CreateFaissIndex \/ SearchSimilarDocuments

SpecEmbed == InitEmbed /\ [][NextEmbed]_vars

\* the scorer, on two articles
InitScore == ScoreInit /\ CleanOff /\ FetchOff /\ EmbedOff /\ SimOff /\ LoadOff /\ ParseOff /\ AnswerOff /\ AppOff /\ CalcOff /\ NormOff /\ CopyOff

NextScore == ScoreArticlesStep

SpecScore == InitScore /\ [][NextScore]_vars

\* clean_medical_query, on one question
InitClean == CleanInit /\ ScoreOff /\ FetchOff /\ EmbedOff /\ SimOff /\ LoadOff /\ ParseOff /\ AnswerOff /\ AppOff /\ CalcOff /\ NormOff /\ CopyOff

NextClean == CleanMedicalQuery

SpecClean == InitClean /\ [][NextClean]_vars

\* the similarity transform, on two distances
InitSim == SimInit /\ CleanOff /\ ScoreOff /\ FetchOff /\ EmbedOff /\ LoadOff /\ ParseOff /\ AnswerOff /\ AppOff /\ CalcOff /\ NormOff /\ CopyOff

NextSim == SimilarityStep

SpecSim == InitSim /\ [][NextSim]_vars

\* threads calling get_embedding_model
InitLoad == LoadInit /\ CleanOff /\ ScoreOff /\ FetchOff /\ EmbedOff /\ SimOff /\ ParseOff /\ AnswerOff /\ AppOff /\ CalcOff /\ NormOff /\ CopyOff

NextLoad ==
    \E t \in Threads :
        \/ EnterCall(t)
        \/ TestModel(t)
        \/ ConstructModel(t)
        \/ StoreModel(t)
        \/ ReturnModel(t)

SpecLoad == InitLoad /\ [][NextLoad]_vars

\* parse_pubmed_xml, on one fetch response
InitParse ==
    ParseInit /\ CleanOff /\ ScoreOff /\ FetchOff /\ EmbedOff /\ SimOff /\ LoadOff
    /\ AnswerOff /\ AppOff /\ CalcOff /\ NormOff /\ CopyOff

NextParse == ParsePubmedXml

SpecParse == InitParse /\ [][NextParse]_vars

\* generate_answer, with the summaries it asks for
InitAnswer ==
    AnswerInit /\ CleanOff /\ ScoreOff /\ FetchOff /\ EmbedOff /\ SimOff /\ LoadOff
    /\ ParseOff /\ AppOff /\ CalcOff /\ NormOff /\ CopyOff

NextAnswer ==
    \/ GenerateAnswerStart
    \/ GetSummarizerPipeline
    \/ SummarizeNext
    \/ GenerateText
    \/ FallbackAnswer

SpecAnswer == InitAnswer /\ [][NextAnswer]_vars

\* one question-answer run of app.py
InitApp ==
    FetchInit /\ AppInit /\ CleanOff /\ ScoreOff /\ EmbedOff /\ SimOff /\ LoadOff
    /\ ParseOff /\ AnswerOff /\ CalcOff /\ NormOff /\ CopyOff

NextApp ==
    \/ GetPubmedStart
    \/ RequestsGet
    \/ Backoff
    \/ SearchReturned
    \/ InterCallDelay
    \/ FetchReturned
    \/ PrimaryReturned
    \/ RecentReturned
    \/ AppRetrieved
    \/ CreateFaissIndex
    \/ AppIndexed
    \/ SearchSimilarDocuments
    \/ AppSearched
    \/ GenerateAnswerStart
    \/ GetSummarizerPipeline
    \/ SummarizeNext
    \/ GenerateText
    \/ FallbackAnswer
    \/ AppAnswered

SpecApp == InitApp /\ [][NextApp]_vars

\* one call of get_pubmed_articles, traced
InitTrace ==
    TraceInit /\ CleanOff /\ ScoreOff /\ EmbedOff /\ SimOff /\ LoadOff /\ ParseOff
    /\ AnswerOff /\ AppOff /\ CalcOff /\ NormOff /\ CopyOff

NextTrace ==
    \/ GetPubmedStart
    \/ RequestsGet
    \/ Backoff
    \/ SearchReturned
    \/ InterCallDelay
    \/ FetchReturned
    \/ PrimaryReturned
    \/ RecentReturned

SpecTrace == InitTrace /\ [][NextTrace]_vars

\* calculate_relevance_score on one article, statement by statement
InitCalc ==
    CalcInit /\ CleanOff /\ ScoreOff /\ FetchOff /\ EmbedOff /\ SimOff /\ LoadOff
    /\ ParseOff /\ AnswerOff /\ AppOff /\ NormOff /\ CopyOff

NextCalc == ExactPhrase \/ MedicalTerm \/ WordMatches

SpecCalc == InitCalc /\ [][NextCalc]_vars

\* the arrays of embedder.py from the encoded documents to the search
InitNorm ==
    NormInit /\ CleanOff /\ ScoreOff /\ FetchOff /\ EmbedOff /\ SimOff /\ LoadOff
    /\ ParseOff /\ AnswerOff /\ AppOff /\ CalcOff /\ CopyOff

NextNorm == Astype \/ NormalizeL2 \/ IndexAdd \/ EncodeQuery \/ IndexSearch

SpecNorm == InitNorm /\ [][NextNorm]_vars

\* the records given to the scorer and to the summaries, by identity
InitCopy ==
    CopyInit /\ CleanOff /\ ScoreOff /\ FetchOff /\ EmbedOff /\ SimOff /\ LoadOff
    /\ ParseOff /\ AnswerOff /\ AppOff /\ CalcOff /\ NormOff

NextCopy == CopyArticle \/ SortScored \/ CopyContext \/ SummariesReturned

SpecCopy == InitCopy /\ [][NextCopy]_vars

(***************************************************************************)
(* Properties                                                              *)
(***************************************************************************)
PmidsOf(articles) == [i \in 1..Len(articles) |-> articles[i].pmid]

NoRepeat(seq) == \A i, j \in 1..Len(seq) : seq[i] = seq[j] => i = j

\* C1 (as stated): whatever the two strategies returned, the merged list and
\* the returned list hold each pmid at most once.
C1_EachIdOnce ==
    gp_pc = "done" =>
        /\ NoRepeat(PmidsOf(all_articles))
        /\ NoRepeat(PmidsOf(gp_returned))

\* C1 (amended): when neither strategy's own result repeats a pmid, the merged
\* list and the returned list hold each pmid at most once, also when the two
\* results overlap.
C1_EachIdOnceAcrossStrategies ==
    (/\ gp_pc = "done"
     /\ NoRepeat(PmidsOf(articles_primary))
     /\ NoRepeat(PmidsOf(articles_recent)))
    => /\ NoRepeat(PmidsOf(all_articles))
       /\ NoRepeat(PmidsOf(gp_returned))

\* both strategies returned articles, with a pmid in common
C1_Witness ==
    /\ gp_pc = "done"
    /\ NoRepeat(PmidsOf(articles_primary))
    /\ NoRepeat(PmidsOf(articles_recent))
    /\ Range(PmidsOf(articles_primary)) \cap Range(PmidsOf(articles_recent)) # {}
    /\ Len(all_articles) > Len(articles_primary)
    /\ NoRepeat(PmidsOf(all_articles))

\* the position (0-based) of the indexed document a result carries
PositionOf(r) ==
    CHOOSE p \in 0..(Len(texts) - 1) :
        p = (IF em_answer.indices[r.rank] >= 0 THEN em_answer.indices[r.rank]
             ELSE Len(texts) + em_answer.indices[r.rank])

\* C2 (as stated): a slot filled with the sentinel -1 gives no result; every
\* result stands for a neighbor position in 0..len(metadatas)-1.
C2_SentinelGivesNoResult ==
    (em_pc = "searched" /\ em_answer # None) =>
        \A i \in 1..Len(em_results) :
            em_answer.indices[em_results[i].rank] \in 0..(Len(metadatas) - 1)

\* C3 (as stated): at most min(k, n) results for an index of n documents.
C3_AtMostMinKN ==
    em_pc = "searched" => Len(em_results) <= Min(em_k, Len(metadatas))

\* C4 (as stated): with k = N every indexed document is in the results exactly
\* once, and for any k no indexed document is there more than once.
C4_RoundTripEachOnce ==
    (em_pc = "searched" /\ em_answer # None) =>
        /\ em_k = Len(texts) =>
              /\ Len(em_results) = Len(texts)
              /\ \A p \in 0..(Len(texts) - 1) :
                    \E i \in 1..Len(em_results) : PositionOf(em_results[i]) = p
        /\ \A i, j \in 1..Len(em_results) :
              PositionOf(em_results[i]) = PositionOf(em_results[j]) => i = j

Last(seq) == seq[Len(seq)]

\* C5: a call answered 429 is retried until 3 GETs were made and then returns
\* None; a success after 429s is returned at once; a call that returned issues
\* no GET.
C5_RateLimitRetries ==
    /\ rq_gets = Len(rq_outcomes)
    /\ rq_gets <= 3
    /\ (rq_outcomes # <<>> /\ \A i \in 1..Len(rq_outcomes) : rq_outcomes[i] = "http429")
       => IF Len(rq_outcomes) < 3
          THEN rq_pc \in {"wait", "get"} /\ rq_attempt = Len(rq_outcomes)
          ELSE rq_pc = "ret" /\ rq_result = None /\ rq_gets = 3
    /\ (/\ rq_outcomes # <<>>
        /\ Last(rq_outcomes) = "ok"
        /\ \A i \in 1..(Len(rq_outcomes) - 1) : rq_outcomes[i] = "http429")
       => /\ rq_pc = "ret"
          /\ rq_result = [kind |-> IF rq_return_json THEN "json" ELSE "response"]
    /\ rq_pc = "ret" => ~ENABLED RequestsGet

\* the third GET of a call was answered 429 like the two before it
C5_Witness ==
    /\ rq_outcomes = <<"http429", "http429", "http429">>
    /\ rq_pc = "ret"
    /\ rq_result = None
    /\ rq_waits = <<2, 4>>

\* C6 (as stated): after a network error on an attempt before the third,
\* another attempt is made.
C6_NetworkErrorRetried ==
    (/\ rq_outcomes # <<>>
     /\ Last(rq_outcomes) = "neterr"
     /\ Len(rq_outcomes) < 3)
    => rq_pc \in {"wait", "get"}

\* C7: no exception leaves make_request_with_retry, which returns the response
\* (or its decoded body) of a successful GET or None; a strategy one of whose
\* calls returned None returns the empty list.
C7_NoTransportErrorEscapes ==
    /\ rq_pc # "raised"
    /\ \A i \in 1..Len(sp_calls) : sp_calls[i] \in {"none", "value"}
    /\ rq_pc = "ret" =>
          \/ rq_result = None
          \/ /\ rq_result = [kind |-> IF rq_return_json THEN "json" ELSE "response"]
             /\ Last(rq_outcomes) \in {"ok", "badjson", "badjson_req"}
             /\ Last(rq_outcomes) # "ok" => ~rq_return_json
    /\ (sp_pc = "ret" /\ \E i \in 1..Len(sp_calls) : sp_calls[i] = "none")
       => sp_result = <<>>

\* the fetch call of a strategy returned None, and the strategy the empty list
C7_Witness ==
    /\ sp_pc = "ret"
    /\ sp_calls = <<"value", "none">>
    /\ sp_result = <<>>

\* an article of the scored list, without its relevance_score
Unscored(s) == [pmid |-> s.pmid, url |-> s.url, title |-> s.title,
                abstract |-> s.abstract]

RECURSIVE IsSubsequence(_, _)
IsSubsequence(sub, seq) ==
    IF sub = <<>> THEN TRUE
    ELSE IF seq = <<>> THEN FALSE
    ELSE IF Head(sub) = Head(seq) THEN IsSubsequence(Tail(sub), Tail(seq))
    ELSE IsSubsequence(sub, Tail(seq))

\* C8: the scored list is the merged list (relevance articles, then recency
\* articles, each in upstream order) in non-increasing score order, articles
\* of equal score in merged order; the returned list is its first max_results
\* elements.
C8_SortedStableTop ==
    gp_pc = "done" =>
        LET S == scored_articles
            scoreGiven(a) ==
                (CHOOSE s \in Range(S) : Unscored(s) = a).relevance_score
        IN  /\ Len(S) = Len(all_articles)
            /\ \A i \in 1..Len(all_articles) :
                  \E s \in Range(S) : Unscored(s) = all_articles[i]
            /\ \A i, j \in 1..Len(S) :
                  i < j => S[i].relevance_score >= S[j].relevance_score
            /\ \A v \in {S[i].relevance_score : i \in 1..Len(S)} :
                  [i \in 1..Len(SelectSeq(S, LAMBDA s : s.relevance_score = v)) |->
                      Unscored(SelectSeq(S, LAMBDA s : s.relevance_score = v)[i])]
                  = SelectSeq(all_articles, LAMBDA a : scoreGiven(a) = v)
            /\ SubSeq(all_articles, 1, Len(articles_primary)) = articles_primary
            /\ IsSubsequence(SubSeq(all_articles, Len(articles_primary) + 1,
                                    Len(all_articles)), articles_recent)
            /\ gp_returned = SubSeq(S, 1, Min(gp_max_results, Len(S)))

\* two articles of equal score, one of each strategy, and a list that is cut
C8_Witness ==
    /\ gp_pc = "done"
    /\ Len(scored_articles) > gp_max_results
    /\ Len(gp_returned) = gp_max_results
    /\ \E i \in 1..(Len(scored_articles) - 1) :
          /\ scored_articles[i].relevance_score = scored_articles[i + 1].relevance_score
          /\ scored_articles[i].pmid # scored_articles[i + 1].pmid
          /\ Unscored(scored_articles[i]) \in Range(articles_primary)
          /\ Unscored(scored_articles[i + 1]) \notin Range(articles_primary)
    /\ scored_articles[1].relevance_score > Last(scored_articles).relevance_score

\* an abstract that is empty or the "No abstract available" sentinel
NoAbstract(a) == a.abstract = <<>> \/ Lower(a.abstract) = <<"n","o"," ","a","b","s","t","r","a","c","t"," ","a","v","a","i","l","a","b","l","e">>

\* the query, its words or its medical terms match something in the abstract
AbstractMatches(a, query) ==
    LET q == Lower(query)
        abstract == Lower(a.abstract)
    IN  \/ Contains(abstract, q)
        \/ \E t \in medical_phrases \cup important_words :
              Contains(q, t) /\ Contains(abstract, t)
        \/ Range(Split(q)) \cap Range(Split(abstract)) # {}

\* C9 (as stated): of two articles that differ only in that one has a real
\* abstract and the other the empty or sentinel abstract, the first scores
\* exactly 1.0 higher.
C9_DeltaExactlyOne ==
    sc_pc = "done" =>
        \A i, j \in 1..Len(sc_articles) :
            (/\ sc_articles[i].title = sc_articles[j].title
             /\ ~NoAbstract(sc_articles[i])
             /\ NoAbstract(sc_articles[j]))
            => sc_scores[i] - sc_scores[j] = 2

\* C9 (amended): the same, for a query that matches nothing in either abstract
\* (not as a phrase, not by a medical term, not by a word); the article with
\* the empty or sentinel abstract gets no completeness bonus.
C9_DeltaOneWithoutAbstractMatch ==
    sc_pc = "done" =>
        \A i, j \in 1..Len(sc_articles) :
            (/\ sc_articles[i].title = sc_articles[j].title
             /\ ~NoAbstract(sc_articles[i])
             /\ NoAbstract(sc_articles[j])
             /\ ~AbstractMatches(sc_articles[i], sc_query)
             /\ ~AbstractMatches(sc_articles[j], sc_query))
            => sc_scores[i] - sc_scores[j] = 2

\* a scored pair with a real and a sentinel abstract, neither matched
C9_Witness ==
    /\ sc_pc = "done"
    /\ sc_articles[1].title = sc_articles[2].title
    /\ ~NoAbstract(sc_articles[1])
    /\ sc_articles[2].abstract = <<"N","o"," ","a","b","s","t","r","a","c","t"," ","a","v","a","i","l","a","b","l","e">>
    /\ ~AbstractMatches(sc_articles[1], sc_query)
    /\ ~AbstractMatches(sc_articles[2], sc_query)
    /\ sc_scores[1] - sc_scores[2] = 2

WordCount(s) == Len(Split(s))

\* C10 (as stated): every non-empty question yields at least 2 words, and the
\* fallback branch is taken exactly when the cleaned result has fewer than 2.
C10_AlwaysTwoWords ==
    (cq_pc = "done" /\ Strip(cq_query) # <<>>) =>
        /\ WordCount(cq_result) >= 2
        /\ cq_fallback <=> (WordCount(CleanedResult(cq_query)) < 2)

\* C10 (amended): a question that keeps at least 2 words once lowercased and
\* rid of "what are the" and "what is the" yields at least 2 words; any other
\* question yields that shorter text; the fallback branch is taken exactly
\* when the cleaned result has fewer than 2 words.
C10_TwoWordsWhenAvailable ==
    (cq_pc = "done" /\ Strip(cq_query) # <<>>) =>
        LET base == Remove(Remove(Strip(Lower(cq_query)), <<"w","h","a","t"," ","a","r","e"," ","t","h","e">>),
                           <<"w","h","a","t"," ","i","s"," ","t","h","e">>)
        IN  /\ (WordCount(base) >= 2) <=> (WordCount(cq_result) >= 2)
            /\ cq_fallback <=> (WordCount(CleanedResult(cq_query)) < 2)

\* the fallback branch ran and restored a two-word query
C10_Witness ==
    /\ cq_pc = "done"
    /\ cq_fallback
    /\ WordCount(CleanedResult(cq_query)) < 2
    /\ WordCount(cq_result) >= 2

\* C11: when both strategies yield no articles get_pubmed_articles returns the
\* empty list; when exactly one yields articles it returns the first
\* max_results of that strategy's articles, scored and sorted
C11_EmptyOrPartial ==
    gp_pc = "done" =>
        /\ (articles_primary = <<>> /\ articles_recent = <<>>) => gp_returned = <<>>
        /\ (articles_primary # <<>> /\ articles_recent = <<>>) =>
              /\ gp_returned # <<>>
              /\ gp_returned = Take(score_articles_by_relevance(articles_primary, gp_query),
                                    gp_max_results)
        /\ (articles_primary = <<>> /\ articles_recent # <<>>) =>
              /\ gp_returned # <<>>
              /\ gp_returned = Take(score_articles_by_relevance(articles_recent, gp_query),
                                    gp_max_results)

\* the relevance strategy failed on a network error, the recency strategy
\* yielded articles, and they were returned
C11_Witness ==
    /\ gp_pc = "done"
    /\ Len(gp_calls) = 2
    /\ articles_primary = <<>>
    /\ articles_recent # <<>>
    /\ gp_returned # <<>>

\* every strategy called got at most retmax ids from the search and at most
\* one article per id from the fetch
UpstreamWithinRequest ==
    \A i \in 1..Len(gp_calls) :
        /\ gp_calls[i].ids <= gp_calls[i].retmax
        /\ gp_calls[i].articles <= gp_calls[i].ids

C17_NoIndexInsteadOfRaise ==
    /\ em_pc # "raised"
    /\ (em_pc = "indexed" /\ em_create_fault # "none") =>
          (em_index = None /\ metadatas = <<>> /\ texts = <<>>)
    /\ (em_pc = "indexed" /\ em_docs = <<>>) =>
          /\ em_index = None /\ metadatas = <<>> /\ texts = <<>>
          /\ em_model_calls = 0
          /\ em_model = "None"

\* the model could not be loaded for a non-empty input, and the no-index
\* result came back
C17_Witness ==
    /\ em_pc = "indexed"
    /\ em_docs # <<>>
    /\ em_create_fault = "load"
    /\ em_index = None

\* 1 + d_j >= 2 * (1 + d_i), in exact arithmetic
TwiceAsFar(di, dj) == (dj.den + dj.num) * di.den >= 2 * (di.den + di.num) * dj.den

\* C18, as stated: the score is exactly 1.0 at distance 0, lies in (0, 1] and
\* is strictly decreasing in the distance
C18_StrictlyDecreasing ==
    ss_pc = "done" =>
        \A i, j \in 1..2 :
            /\ ss_distance[i].num = 0 => FEq(ss_score[i], Frac(1, 1))
            /\ FLess(Frac(0, 1), ss_score[i])
            /\ ~FLess(Frac(1, 1), ss_score[i])
            /\ FLess(ss_distance[i], ss_distance[j]) => FLess(ss_score[j], ss_score[i])

\* C18, amended: the score is exactly 1.0 at distance 0, lies in (0, 1] and
\* is non-increasing in the distance; it is strictly smaller when 1 + d has
\* at least doubled
C18_NonIncreasing ==
    ss_pc = "done" =>
        \A i, j \in 1..2 :
            /\ ss_distance[i].num = 0 => FEq(ss_score[i], Frac(1, 1))
            /\ FLess(Frac(0, 1), ss_score[i])
            /\ ~FLess(Frac(1, 1), ss_score[i])
            /\ FLess(ss_distance[i], ss_distance[j]) => ~FLess(ss_score[i], ss_score[j])
            /\ TwiceAsFar(ss_distance[i], ss_distance[j]) =>
                  FLess(ss_score[j], ss_score[i])

\* two different distances received the same score
C18_Witness ==
    /\ ss_pc = "done"
    /\ FLess(ss_distance[1], ss_distance[2])
    /\ FEq(ss_score[1], ss_score[2])

\* C19: the results of search_similar_documents are in order of
\* non-increasing similarity_score and non-decreasing distance, and the rank
\* of the result at position j is j
C19_OrderedAndRanked ==
    em_pc = "searched" =>
        /\ \A j \in 1..Len(em_results) : em_results[j].rank = j
        /\ \A i, j \in 1..Len(em_results) :
              i < j =>
                /\ ~FLess(em_results[i].similarity_score, em_results[j].similarity_score)
                /\ em_answer.distances[em_results[i].rank]
                      <= em_answer.distances[em_results[j].rank]

\* a search returned neighbours at different distances
C19_Witness ==
    /\ em_pc = "searched"
    /\ Len(em_results) >= 2
    /\ FLess(em_results[2].similarity_score, em_results[1].similarity_score)
    /\ em_results[2].rank = 2

\* C14: for every interleaving of the threads' calls the model is constructed
\* at most once, not before the first call, and every call returns the same
\* instance
C14_ConstructedOnce ==
    /\ gm_constructed <= 1
    /\ (\A t \in Threads : gm_calls[t] = 0) => gm_constructed = 0
    /\ \A t, u \in Threads :
          \A i \in 1..Len(gm_returned[t]) : \A j \in 1..Len(gm_returned[u]) :
              gm_returned[t][i] = gm_returned[u][j]

\* the records of a document that parse, in document order
Parsing(records) == SelectSeq(records, LAMBDA r : ~r.raises)

\* C16: a record whose parsing raises is skipped and every other record of
\* the batch is returned, in upstream order; a document that is no XML gives
\* the empty list
C16_PerRecordIsolation ==
    px_pc = "done" =>
        IF xml_content.kind = "malformed" THEN px_articles = <<>>
        ELSE /\ Len(px_articles) = Len(Parsing(xml_content.records))
             /\ \A i \in 1..Len(px_articles) :
                   px_articles[i] = Catalogue(Parsing(xml_content.records)[i].pmid)

\* a record between two others raised, and the two others came back
C16_Witness ==
    /\ px_pc = "done"
    /\ xml_content.kind = "xml"
    /\ Len(xml_content.records) = 3
    /\ ~xml_content.records[1].raises
    /\ xml_content.records[2].raises
    /\ ~xml_content.records[3].raises
    /\ Len(px_articles) = 2

\* C15: for a non-empty list of contexts generate_answer always returns an
\* answer; when loading or invoking the generative model fails it returns the
\* template answer, with a numbered summary per context and a sources
\* section that lists every context's title and url, whatever the summarizer
\* does; no failure of a model leaves generate_answer
C15_AlwaysAnAnswer ==
    /\ ga_pc # "raised"
    /\ (ga_pc = "done" /\ contexts # <<>>) =>
          /\ ga_answer # None
          /\ ga_answer # NoEvidence
          /\ ga_fault # "none" =>
                /\ ga_answer.kind = "template"
                /\ Len(ga_answer.findings) = Len(contexts)
                /\ Len(ga_answer.sources) = Len(contexts)
                /\ \A i \in 1..Len(contexts) :
                      /\ ga_answer.sources[i].title = contexts[i].metadata.title
                      /\ ga_answer.sources[i].url = contexts[i].metadata.url
                      /\ ga_answer.findings[i] = ga_answer.sources[i].summary

\* neither the generative model nor the summarizer could be loaded, and the
\* template answer came back
C15_Witness ==
    /\ ga_pc = "done"
    /\ Len(contexts) = 2
    /\ ga_fault = "load"
    /\ summarizer_pipeline = "None"
    /\ ga_answer.kind = "template"

BothSearchesEmpty ==
    /\ Len(gp_calls) = 2
    /\ \A i \in 1..2 : gp_calls[i].search_data = [kind |-> "idlist", idlist |-> <<>>]

\* C13: when the search endpoint returns an empty id list for both
\* strategies, get_pubmed_articles returns the empty list and the run stops
\* on the no-articles message before create_faiss_index is called, the
\* embedding model neither loaded nor used; and each later stage is entered
\* only when the stage before it produced a non-empty result
C13_StopsBeforeNextStage ==
    /\ (gp_pc = "done" /\ BothSearchesEmpty) =>
          /\ gp_returned = <<>>
          /\ app_pc \in {"retrieve", "no_articles"}
    /\ app_pc = "no_articles" =>
          /\ app_stages = <<"retrieve">>
          /\ em_pc = "off"
          /\ em_model = "None"
          /\ em_model_calls = 0
          /\ ga_pc = "off"
          /\ ~ENABLED NextApp
    /\ (\E i \in 1..Len(app_stages) : app_stages[i] = "index") => em_docs # <<>>
    /\ (\E i \in 1..Len(app_stages) : app_stages[i] = "search") =>
          (em_index # None /\ texts # <<>>)
    /\ (\E i \in 1..Len(app_stages) : app_stages[i] = "answer") =>
          (em_results # <<>> /\ contexts = em_results)
    /\ (em_pc # "off" \/ em_model_calls > 0) =>
          \E i \in 1..Len(app_stages) : app_stages[i] = "index"
    /\ em_pc = "searched" => \E i \in 1..Len(app_stages) : app_stages[i] = "search"
    /\ ga_pc # "off" => \E i \in 1..Len(app_stages) : app_stages[i] = "answer"

\* both searches came back with an empty id list and the run stopped on the
\* no-articles message
C13_Witness ==
    /\ BothSearchesEmpty
    /\ app_pc = "no_articles"
    /\ em_model_calls = 0

\* the words of a list that are no stopwords, in order
WithoutStopwords(words) == SelectSeq(words, LAMBDA w : w \notin medical_stopwords)

\* C21 (as stated): when removing the stopwords would leave 3 or fewer words
\* no stopword is removed; they are removed only when more than 3 words remain
C21_SkippedWhenFewRemain ==
    cq_pc = "done" =>
        IF Len(WithoutStopwords(cq_words)) <= 3
        THEN filtered_words = cq_words
        ELSE filtered_words = WithoutStopwords(cq_words)

\* C21 (amended): the removal is all-or-nothing with respect to the word count
\* before the removal: a query of 3 or fewer words keeps its stopwords, a
\* query of more than 3 words loses every stopword, however few words remain
C21_SkippedWhenFewWords ==
    cq_pc = "done" =>
        IF Len(cq_words) <= 3
        THEN filtered_words = cq_words
        ELSE filtered_words = WithoutStopwords(cq_words)

\* a query of more than 3 words lost its stopwords and kept 3 words or fewer
C21_Witness ==
    /\ cq_pc = "done"
    /\ Len(cq_words) > 3
    /\ filtered_words # cq_words
    /\ Len(filtered_words) <= 3
    /\ filtered_words = WithoutStopwords(cq_words)

\* the formula of the claim, doubled: the phrase term, the per-term weights,
\* the word overlaps, the completeness bonus and the constant
ReferenceScore(article, query) ==
    LET title == Lower(article.title)
        abstract == Lower(article.abstract)
        words == Range(Split(query))
        InTitle(t) == Contains(title, t)
        InAbstract(t) == Contains(abstract, t)
        terms == extract_medical_terms(query)
    IN  (IF InTitle(query) THEN 20 ELSE IF InAbstract(query) THEN 10 ELSE 0)
      + 6 * Cardinality({t \in terms : InTitle(t)})
      + 3 * Cardinality({t \in terms : ~InTitle(t) /\ InAbstract(t)})
      + 4 * Cardinality(words \cap Range(Split(title)))
      + 1 * Cardinality(words \cap Range(Split(abstract)))
      + (IF abstract # <<>> /\ abstract # NoAbstractLower THEN 2 ELSE 0)
      + 1

\* C22: whatever order the loop visits the medical terms in, the score
\* calculate_relevance_score returns is the reference formula of its inputs,
\* so equal inputs give equal scores
C22_EqualsReference ==
    cr_pc = "done" =>
        /\ cr_score = ReferenceScore(cr_article, cr_query)
        /\ cr_score = calculate_relevance_score(cr_article, Range(Split(cr_query)),
                                                extract_medical_terms(cr_query), cr_query)

\* a score built from three medical terms, one matched in the title, one only
\* in the abstract, visited in an order that is not the one of the source list
C22_Witness ==
    /\ cr_pc = "done"
    /\ Len(cr_visited) = 3
    /\ cr_visited[1] = <<"e","l","d","e","r","l","y">>
    /\ cr_visited[3] = <<"s","i","d","e"," ","e","f","f","e","c","t","s">>
    /\ Contains(Lower(cr_article.title), <<"m","e","t","f","o","r","m","i","n">>)
    /\ ~Contains(Lower(cr_article.title), <<"s","i","d","e"," ","e","f","f","e","c","t","s">>)
    /\ Contains(Lower(cr_article.abstract), <<"s","i","d","e"," ","e","f","f","e","c","t","s">>)
    /\ cr_score = ReferenceScore(cr_article, cr_query)

\* the places of the trace that hold an entry of this kind
Places(ev, what) == {i \in 1..Len(events) : events[i].ev = ev /\ events[i].what = what}

\* C23: the recency strategy is called if and only if the relevance strategy
\* gave fewer than initial_fetch = min(3N, 15) articles; it is called once the
\* relevance strategy has ended, with the same cleaned term, sort key pub_date
\* and the missing count; after a relevance strategy that met the quota
\* nothing more is requested
C23_RecencyOnlyWhenShort ==
    LET initial_fetch == Min(3 * gp_max_results, 15)
    IN  /\ \A i \in Places("call", "relevance") : i = 1 /\ events[i].n = initial_fetch
        /\ \A i \in Places("call", "pub_date") :
              /\ i > 1
              /\ events[i - 1].ev = "end" /\ events[i - 1].what = "relevance"
              /\ events[i - 1].n < initial_fetch
              /\ events[i].n = initial_fetch - events[i - 1].n
              /\ sp_pc # "idle" => sp_term = CleanedTable[gp_query]
        /\ \A i \in Places("end", "relevance") :
              IF events[i].n < initial_fetch
              THEN i < Len(events) /\ events[i + 1] = Event("call", "pub_date",
                                                            initial_fetch - events[i].n)
              ELSE i = Len(events)
        /\ gp_pc = "done" =>
              /\ gp_calls[1].sort = "relevance"
              /\ gp_calls[1].term = CleanedTable[gp_query]
              /\ gp_calls[1].retmax = initial_fetch
              /\ Len(gp_calls) = (IF gp_calls[1].articles < initial_fetch THEN 2 ELSE 1)
              /\ Len(gp_calls) = 2 =>
                    /\ gp_calls[2].sort = "pub_date"
                    /\ gp_calls[2].term = gp_calls[1].term
                    /\ gp_calls[2].retmax = initial_fetch - gp_calls[1].articles

\* a run whose relevance strategy gave some articles but not the quota, and
\* whose recency strategy asked upstream for the rest
C23_Witness ==
    /\ gp_pc = "done"
    /\ Len(gp_calls) = 2
    /\ gp_calls[1].articles > 0
    /\ gp_calls[2].sort = "pub_date"
    /\ gp_calls[2].retmax = gp_initial_fetch - gp_calls[1].articles
    /\ \E i \in Places("get", "esearch") : i > 1 + CHOOSE j \in Places("end", "relevance") : TRUE

\* a run whose relevance strategy met the quota
QuotaMet ==
    /\ gp_pc = "done"
    /\ Len(gp_calls) = 1
    /\ gp_calls[1].articles = gp_initial_fetch
    /\ Places("call", "pub_date") = {}

\* C24: the first GET of a call of make_request_with_retry has no backoff wait
\* before it; the GET of attempt a >= 1 comes directly after a wait of 2^a
\* seconds (2 s, then 4 s), which itself follows the GET of attempt a - 1 to
\* the same endpoint; a wait is always over before the next GET is issued
C24_BackoffSchedule ==
    /\ \A i \in 1..Len(events) :
          events[i].ev = "get" =>
              IF events[i].n = 0
              THEN i > 1 /\ ~(events[i - 1].ev = "sleep" /\ events[i - 1].what = "backoff")
              ELSE /\ i > 2
                   /\ events[i - 1] = Event("sleep", "backoff", 2 * (2 ^ events[i].n))
                   /\ events[i - 2] = Event("get", events[i].what, events[i].n - 1)
    /\ \A i \in Places("sleep", "backoff") :
          IF i = Len(events) THEN rq_pc = "get"
          ELSE events[i + 1].ev = "get" /\ events[i + 1].n >= 1
    /\ rq_waits \in {<<>>, <<2>>, <<2, 4>>}
    /\ rq_pc = "get" => Len(rq_waits) = rq_attempt
    /\ rq_pc = "wait" => Len(rq_waits) = rq_attempt - 1

\* a call that went through its three attempts: GET, 2 s, GET, 4 s, GET
C24_Witness ==
    \E i \in 1..Len(events) :
        /\ i > 4
        /\ events[i] = Event("get", "efetch", 2)
        /\ events[i - 1] = Event("sleep", "backoff", 8)
        /\ events[i - 2] = Event("get", "efetch", 1)
        /\ events[i - 3] = Event("sleep", "backoff", 4)
        /\ events[i - 4] = Event("get", "efetch", 0)

\* the last place before i that holds an entry of this kind, or 0
LastBefore(i, ev, what) ==
    LET before == {j \in Places(ev, what) : j < i}
    IN  IF before = {} THEN 0 ELSE CHOOSE j \in before : \A k \in before : k <= j

\* C28: in a strategy that requests the fetch endpoint, the 0.5 s delay comes
\* after the search call has returned and before the first GET of the fetch
\* call: every fetch GET has, since the last return of a search call, the
\* delay before it
C28_DelayBetweenCalls ==
    /\ \A i \in Places("get", "efetch") :
          LET returned == LastBefore(i, "return", "esearch")
              delayed == LastBefore(i, "sleep", "rate")
          IN  /\ returned > 0
              /\ delayed = returned + 1
              /\ delayed < i
              /\ events[delayed].n = 1
    /\ \A i \in Places("sleep", "rate") :
          /\ i > 1 /\ events[i - 1] = Event("return", "esearch", 0)
          /\ IF i = Len(events) THEN sp_pc = "fetch" /\ rq_pc = "get"
             ELSE events[i + 1] = Event("get", "efetch", 0)

\* a strategy that searched, slept 0.5 s and requested the fetch endpoint,
\* retrying it once
C28_Witness ==
    \E i \in Places("sleep", "rate") :
        /\ i + 3 <= Len(events)
        /\ events[i - 1] = Event("return", "esearch", 0)
        /\ events[i + 1] = Event("get", "efetch", 0)
        /\ events[i + 3] = Event("get", "efetch", 1)

\* the entries of the trace from place a to place b that are GETs
GetsBetween(a, b) == {i \in a..b : events[i].ev = "get"}

\* the seconds of backoff waited by the call whose last GET is at place i
RECURSIVE BackoffBefore(_)
BackoffBefore(i) ==
    IF i <= 2 \/ events[i].n = 0 THEN 0
    ELSE events[i - 1].n \div 2 + BackoffBefore(i - 2)

\* at most 3 GETs and 6 s of backoff per call of make_request_with_retry, at
\* most 2 strategies and 12 GETs per run of get_pubmed_articles
BoundedWork ==
    /\ rq_gets <= 3
    /\ rq_gets = Len(rq_outcomes)
    /\ \A i \in 1..Len(events) :
          events[i].ev = "get" => events[i].n <= 2 /\ BackoffBefore(i) <= 6
    /\ Cardinality(GetsBetween(1, Len(events))) <= 12
    /\ Cardinality(Places("call", "relevance") \cup Places("call", "pub_date")) <= 2

\* the steps a call of make_request_with_retry can still take
RequestRank ==
    CASE rq_pc = "get" -> 2 * (max_retries - rq_attempt)
      [] rq_pc = "wait" -> 2 * (max_retries - rq_attempt) + 1
      [] OTHER -> 0

\* the steps a strategy can still take: at most 7 for a call and its return
StrategyRank ==
    CASE sp_pc = "search" -> 10 + RequestRank
      [] sp_pc = "delay" -> 9
      [] sp_pc = "fetch" -> 2 + RequestRank
      [] sp_pc = "ret" -> 1
      [] OTHER -> 0

\* the steps a run of get_pubmed_articles can still take
RunRank ==
    CASE gp_pc = "start" -> 36
      [] gp_pc = "primary" -> 18 + StrategyRank
      [] gp_pc = "recent" -> 1 + StrategyRank
      [] OTHER -> 0

\* a run that has not returned can take a step: its caller takes up a strategy
\* that is back (lines 25 and 34 follow the calls with no condition), and
\* otherwise a step of the strategy or of its request is possible
CanStep ==
    \/ gp_pc \in {"primary", "recent"} /\ sp_pc = "ret"
    \/ ENABLED (\/ GetPubmedStart \/ RequestsGet \/ Backoff
                \/ SearchReturned \/ InterCallDelay \/ FetchReturned)

\* C29: whatever upstream answers, a call of make_request_with_retry issues at
\* most 3 GETs and waits at most 6 s of backoff and a run of get_pubmed_articles
\* issues at most 12 GETs; the run always ends: until it has returned a step
\* is possible, and every step lowers the count of the steps left
C29_BoundedAndTerminates ==
    /\ [](BoundedWork /\ (gp_pc # "done" => CanStep) /\ (gp_pc = "done" <=> RunRank = 0))
    /\ [][RunRank' < RunRank /\ RunRank' >= 0]_vars

\* a run that issued its 12 GETs and returned
C29_Witness ==
    /\ gp_pc = "done"
    /\ Cardinality(GetsBetween(1, Len(events))) = 12
    /\ \E i \in Places("get", "efetch") : events[i].n = 2 /\ BackoffBefore(i) = 6

\* C30: the fetch endpoint is requested only after the search call of the same
\* strategy gave a non-empty id list; a strategy whose search call gave no
\* result, a body without esearchresult or an empty idlist ends with the empty
\* list, with no delay and no fetch request
C30_FetchOnlyAfterIds ==
    /\ \A i \in Places("return", "esearch") :
          LET follows == IF i < Len(events) THEN events[i + 1].ev ELSE "none"
          IN  \/ follows = "sleep" /\ events[i + 1].what = "rate"
              \/ follows = "end" /\ events[i + 1].n = 0
              \/ follows = "none" /\ sp_pc \in {"ret", "delay"}
    /\ sp_pc \in {"delay", "fetch"} =>
          /\ search_data # None
          /\ search_data.kind = "idlist"
          /\ search_data.idlist # <<>>
          /\ article_ids = search_data.idlist
    /\ \A c \in 1..Len(gp_calls) :
          LET call == gp_calls[c]
              no_ids == \/ call.search_data = None
                        \/ call.search_data.kind # "idlist"
                        \/ call.search_data.idlist = <<>>
          IN  no_ids => call.articles = 0 /\ call.calls = 1
    /\ (sp_pc = "ret" /\ Len(sp_calls) = 1) => sp_result = <<>>

\* a strategy whose search call returned a body with an empty idlist and that
\* ended at once, with nothing fetched
C30_Witness ==
    /\ Len(gp_calls) >= 1
    /\ gp_calls[1].search_data # None
    /\ gp_calls[1].search_data.kind = "idlist"
    /\ gp_calls[1].search_data.idlist = <<>>
    /\ gp_calls[1].calls = 1
    /\ \E i \in Places("return", "esearch") :
          events[i + 1] = Event("end", "relevance", 0)

\* C25: the vectors index.add is given are the encoder's vectors of the
\* documents scaled to length 1, and the vector index.search is given is the
\* encoder's vector of the query scaled to length 1
C25_NormalizedAddedAndSearched ==
    /\ nm_added # <<>> => nm_added = normalize_L2(arrays[1])
    /\ nm_searched # <<>> => nm_searched = <<UnitVector(nm_encoded)>>

\* the place (from 1) in the lists that Python's list[idx] reads
PlaceOf(idx, n) == IF idx >= 0 THEN idx + 1 ELSE n + idx + 1

\* C26: after a successful create_faiss_index the index, the metadata list
\* and the text list are as long as docs, and at every place the metadata
\* (title, url, pmid), the text and the vector come from the document at that
\* place; every result of search_similar_documents carries the text and the
\* metadata of one and the same place, the one index.search named, so its url
\* and pmid are those of the article whose text it carries
C26_ParallelLists ==
    /\ (em_pc \in {"indexed", "searched"} /\ em_index # None) =>
          /\ Len(em_index.vectors) = Len(em_docs)
          /\ Len(metadatas) = Len(em_docs)
          /\ Len(texts) = Len(em_docs)
          /\ \A i \in 1..Len(em_docs) :
                /\ metadatas[i].url = em_docs[i].url
                /\ metadatas[i].pmid = em_docs[i].pmid
                /\ metadatas[i].title = Strip(em_docs[i].title)
                /\ StartsWith(texts[i], Strip(em_docs[i].title))
                /\ texts[i] # Strip(em_docs[i].title) =>
                      texts[i] = Strip(em_docs[i].title) \o <<".", " ">>
                                 \o Strip(em_docs[i].abstract)
          /\ \A i, j \in 1..Len(em_docs) :
                texts[i] = texts[j] => em_index.vectors[i] = em_index.vectors[j]
    /\ (em_pc = "searched" /\ em_answer # None) =>
          \A r \in 1..Len(em_results) :
              LET result == em_results[r]
                  place == PlaceOf(em_answer.indices[result.rank], Len(texts))
              IN  /\ place \in 1..Len(em_docs)
                  /\ result.text = texts[place]
                  /\ result.metadata = metadatas[place]
                  /\ result.metadata.url = em_docs[place].url
                  /\ result.metadata.pmid = em_docs[place].pmid

\* a search over three different articles whose nearest neighbour is not the
\* first of them, and whose results all carry their own article's pmid
C26_Witness ==
    /\ em_pc = "searched"
    /\ Len(em_docs) = 3
    /\ \A i, j \in 1..3 : em_docs[i].pmid = em_docs[j].pmid => i = j
    /\ Len(em_results) >= 2
    /\ em_answer.indices[1] = 2
    /\ em_results[1].metadata.pmid = em_docs[3].pmid
    /\ em_results[1].text = texts[3]

SummarizedTwice ==
    /\ cp_pc = "done"
    /\ cp_key = "summary"
    /\ Len(objects) = Len(cp_before) + 2 * Len(cp_list)
    /\ \A k \in 1..Len(cp_list) : "summary" \notin DOMAIN objects[cp_list[k]]

====
